---- MODULE Spec2Model ----
(***************************************************************************)
(* A state-machine model of the serenada-v2 backend stores and client      *)
(* state machines.  The module holds one group of variables per component  *)
(* and one specification per component (SpecAuth, SpecMsg, ...): the       *)
(* components share no state, so each specification moves its own          *)
(* variables and leaves the others at their initial values.                *)
(***************************************************************************)
EXTENDS Integers, Sequences, FiniteSets, TLC

(***************************************************************************)
(* Component 1: authentication store and handlers (auth.go).               *)
(***************************************************************************)
VARIABLES
    users,        \* AuthStore.users: username -> User
    usersByID,    \* AuthStore.usersByID: userID -> User
    tokens,       \* AuthStore.tokens: token -> userID
    idSeq,        \* number of identifiers handed out by generateID
    tokSeq,       \* number of random tokens drawn by createToken
    authReq       \* the HTTP requests of the run: position and response

authVars == <<users, usersByID, tokens, idSeq, tokSeq, authReq>>

\* Number of register/login requests of one run.
MaxAuthReq == 3

AuthReqIds == 1..MaxAuthReq

\* handleRegister: len(req.Username) < 3
MinUsernameLen == 3

\* handleRegister: len(req.Password) < 6
MinPasswordLen == 6

LongPassword == "0123456789012345678901234567890123456789012345678901234567890123456789012"

Usernames == {"al", "alice"}

Passwords == {"12345", "secret", LongPassword}

Methods == {"POST", "GET"}

StatusOK == 200
StatusBadRequest == 400
StatusUnauthorized == 401
StatusConflict == 409
StatusMethodNotAllowed == 405

NoUser == [UserID |-> <<"none", 0>>, Username |-> "", PasswordHash |-> <<"none", "">>]

IdleReq ==
    [pc |-> "idle", kind |-> "none", method |-> "", bodyOk |-> FALSE,
     username |-> "", password |-> "", user |-> NoUser,
     status |-> 0, message |-> "", token |-> <<"none", 0>>,
     taken |-> FALSE, cause |-> "none"]

\* generateID(prefix): a fresh identifier on every call.
generateID(prefix, seq) == <<prefix, seq + 1>>

\* bcrypt.GenerateFromPassword: an error for a password longer than 72 bytes,
\* else a hash that only the same password matches.
GenerateFromPassword(password) ==
    IF Len(password) > 72
    THEN [ok |-> FALSE, hash |-> <<"none", "">>,
          err |-> "bcrypt: password length exceeds 72 bytes"]
    ELSE [ok |-> TRUE, hash |-> <<"bcrypt", password>>, err |-> ""]

\* bcrypt.CompareHashAndPassword: TRUE iff the password matches the hash.
CompareHashAndPassword(hash, password) ==
    /\ Len(password) <= 72
    /\ hash = <<"bcrypt", password>>

UsernameTakenNoCheck(us, username) == FALSE

\* The existence test of createUser (auth.go line 41).
UsernameTaken(us, username) == username \in DOMAIN us

\* AuthStore.createUser under s.mu: the outcome and the maps afterwards.
createUser(us, byId, seq, username, password) ==
    IF UsernameTaken(us, username)
    THEN [ok |-> FALSE, err |-> "username already exists", user |-> NoUser,
          users |-> us, usersByID |-> byId, idSeq |-> seq]
    ELSE LET h == GenerateFromPassword(password) IN
         IF ~h.ok
         THEN [ok |-> FALSE, err |-> h.err, user |-> NoUser,
               users |-> us, usersByID |-> byId, idSeq |-> seq]
         ELSE LET user == [UserID |-> generateID("U-", seq),
                           Username |-> username,
                           PasswordHash |-> h.hash]
              IN [ok |-> TRUE, err |-> "", user |-> user,
                  users |-> [u \in DOMAIN us \cup {username} |->
                               IF u = username THEN user ELSE us[u]],
                  usersByID |-> [i \in DOMAIN byId \cup {user.UserID} |->
                               IF i = user.UserID THEN user ELSE byId[i]],
                  idSeq |-> seq + 1]

\* The error of verifyUser for a username that is not registered.
UnknownUserError == "invalid credentials"

WrongPasswordErrorDistinct == "wrong password"

\* The error of verifyUser for a password that does not match the hash.
WrongPasswordError == "invalid credentials"

\* AuthStore.verifyUser.
verifyUser(us, username, password) ==
    IF username \notin DOMAIN us
    THEN [ok |-> FALSE, err |-> UnknownUserError, user |-> NoUser]
    ELSE IF ~CompareHashAndPassword(us[username].PasswordHash, password)
         THEN [ok |-> FALSE, err |-> WrongPasswordError, user |-> NoUser]
         ELSE [ok |-> TRUE, err |-> "", user |-> us[username]]

\* Why a login failed (kept with the response for the properties only).
LoginFailureCause(us, username) ==
    IF username \in DOMAIN us THEN "wrongPassword" ELSE "unknownUser"

\* The response of a handler that ends the request.
Respond(req, status, message) ==
    [req EXCEPT !.pc = "done", !.status = status, !.message = message]

\* Requests start in the order of their numbers (they still overlap).
MayStart(r) ==
    /\ authReq[r].pc = "idle"
    /\ \A q \in AuthReqIds : q < r => authReq[q].pc # "idle"

\* handleRegister up to the call of createUser: method, body and length checks.
handleRegister(r) ==
    /\ MayStart(r)
    /\ \E method \in Methods, bodyOk \in BOOLEAN,
          username \in Usernames, password \in Passwords :
         LET req == [IdleReq EXCEPT !.kind = "register", !.method = method,
                                    !.bodyOk = bodyOk,
                                    !.taken = (username \in DOMAIN users)] IN
         authReq' = [authReq EXCEPT ![r] =
            IF method # "POST"
            THEN Respond(req, StatusMethodNotAllowed, "Method not allowed")
            ELSE IF ~bodyOk
            THEN Respond(req, StatusBadRequest, "Invalid request")
            ELSE IF Len(username) < MinUsernameLen \/ Len(password) < MinPasswordLen
            THEN Respond([req EXCEPT !.username = username, !.password = password],
                         StatusBadRequest,
                         "Username must be at least 3 characters and password at least 6 characters")
            ELSE [req EXCEPT !.pc = "createUser", !.username = username,
                             !.password = password]]
    /\ UNCHANGED <<users, usersByID, tokens, idSeq, tokSeq>>

\* handleRegister: authStore.createUser and the 409 answer on its error.
handleRegisterCreateUser(r) ==
    /\ authReq[r].pc = "createUser"
    /\ authReq[r].kind = "register"
    /\ LET res == createUser(users, usersByID, idSeq,
                             authReq[r].username, authReq[r].password) IN
         /\ users' = res.users
         /\ usersByID' = res.usersByID
         /\ idSeq' = res.idSeq
         /\ authReq' = [authReq EXCEPT ![r] =
              IF ~res.ok
              THEN Respond(authReq[r], StatusConflict, res.err)
              ELSE [authReq[r] EXCEPT !.pc = "createToken", !.user = res.user]]
    /\ UNCHANGED <<tokens, tokSeq>>

\* AuthStore.createToken and the 200 answer of handleRegister/handleLogin.
createToken(r) ==
    /\ authReq[r].pc = "createToken"
    /\ LET token == <<"T", tokSeq + 1>> IN
         /\ tokens' = [t \in DOMAIN tokens \cup {token} |->
                         IF t = token THEN authReq[r].user.UserID ELSE tokens[t]]
         /\ tokSeq' = tokSeq + 1
         /\ authReq' = [authReq EXCEPT ![r] =
              [Respond(authReq[r], StatusOK, "") EXCEPT !.token = token]]
    /\ UNCHANGED <<users, usersByID, idSeq>>

\* handleLogin up to the call of verifyUser: method and body checks.
handleLogin(r) ==
    /\ MayStart(r)
    /\ \E method \in Methods, bodyOk \in BOOLEAN,
          username \in Usernames, password \in Passwords :
         LET req == [IdleReq EXCEPT !.kind = "login", !.method = method,
                                    !.bodyOk = bodyOk] IN
         authReq' = [authReq EXCEPT ![r] =
            IF method # "POST"
            THEN Respond(req, StatusMethodNotAllowed, "Method not allowed")
            ELSE IF ~bodyOk
            THEN Respond(req, StatusBadRequest, "Invalid request")
            ELSE [req EXCEPT !.pc = "verifyUser", !.username = username,
                             !.password = password]]
    /\ UNCHANGED <<users, usersByID, tokens, idSeq, tokSeq>>

\* handleLogin: authStore.verifyUser and the 401 answer on its error.
handleLoginVerifyUser(r) ==
    /\ authReq[r].pc = "verifyUser"
    /\ LET res == verifyUser(users, authReq[r].username, authReq[r].password) IN
         authReq' = [authReq EXCEPT ![r] =
            IF ~res.ok
            THEN [Respond(authReq[r], StatusUnauthorized, res.err)
                    EXCEPT !.cause = LoginFailureCause(users, authReq[r].username)]
            ELSE [authReq[r] EXCEPT !.pc = "createToken", !.user = res.user]]
    /\ UNCHANGED <<users, usersByID, tokens, idSeq, tokSeq>>

AuthInit ==
    /\ users = <<>>
    /\ usersByID = <<>>
    /\ tokens = <<>>
    /\ idSeq = 0
    /\ tokSeq = 0
    /\ authReq = [r \in AuthReqIds |-> IdleReq]

(***************************************************************************)
(* Component 2: direct-messaging store and handlers (messaging.go).        *)
(***************************************************************************)
VARIABLES
    chats,        \* MessagingStore.chats: chatID -> ChatRoom
    userChats,    \* MessagingStore.userChats: userID -> list of chatIDs
    wsClients,    \* MessagingStore.wsClients: userID -> connection (0: none)
    wsConn,       \* every websocket connection made: user, open, handler, inbox
    lastCall      \* the last getOrCreateChat call and the id it returned

msgVars == <<chats, userChats, wsClients, wsConn, lastCall>>

VARIABLES
    sendLog       \* the answer to the last send, and the sends to no conversation

sendVars == <<sendLog>>

\* Sends to a conversation that does not exist, in one run.
MaxUnknownSends == 2

StatusInternalServerError == 500

NoMessage == <<"", 0>>

\* Conversations created in one run.
MaxChats == 2

\* Messages stored in one run.
MaxMsgs == 2

\* Websocket connections opened in one run.
MaxConns == 2

\* The authenticated users of the messaging handlers.
MsgUsers == {"u1", "u2", "u3"}

NoChat == <<"none", 0>>

\* A conversation id no conversation has.
UnknownChat == <<"CHAT-", 0>>

\* A scan that looks at the second participant only.
ChatHasParticipantSecondOnly(chat, u) == chat.Participants[2] = u

\* getOrCreateChat: "for _, p := range chat.Participants { if p == userID2".
ChatHasParticipant(chat, u) ==
    \E i \in 1..Len(chat.Participants) : chat.Participants[i] = u

\* The scan of getOrCreateChat: the first conversation of userID1's list that
\* has userID2 among its participants, or NoChat.
FindChat(cs, ucs, userID1, userID2) ==
    LET list == ucs[userID1]
        hits == {i \in 1..Len(list) :
                    list[i] \in DOMAIN cs /\ ChatHasParticipant(cs[list[i]], userID2)}
    IN IF hits = {} THEN NoChat
       ELSE list[CHOOSE i \in hits : \A j \in hits : i <= j]

\* MessagingStore.getOrCreateChat under s.mu, called by handleCreateChat for
\* the caller and the user the request names.
getOrCreateChat(userID1, userID2) ==
    LET found == FindChat(chats, userChats, userID1, userID2) IN
    IF found # NoChat
    THEN /\ lastCall' = [u1 |-> userID1, u2 |-> userID2, id |-> found]
         /\ UNCHANGED <<chats, userChats, idSeq>>
    ELSE /\ Cardinality(DOMAIN chats) < MaxChats
         /\ LET id == generateID("CHAT-", idSeq)
                chat == [ID |-> id,
                         Participants |-> <<userID1, userID2>>,
                         Messages |-> <<>>,
                         LastMessage |-> <<"none", 0>>,
                         UnreadCount |-> [u \in MsgUsers |-> 0],
                         OtherSent |-> [u \in MsgUsers |-> 0]]
                withFirst == [userChats EXCEPT ![userID1] = Append(@, id)]
            IN /\ chats' = [c \in DOMAIN chats \cup {id} |->
                              IF c = id THEN chat ELSE chats[c]]
               /\ userChats' = [withFirst EXCEPT ![userID2] = Append(@, id)]
               /\ idSeq' = idSeq + 1
               /\ lastCall' = [u1 |-> userID1, u2 |-> userID2, id |-> id]

handleCreateChat ==
    /\ \E caller \in MsgUsers, target \in MsgUsers : getOrCreateChat(caller, target)
    /\ UNCHANGED <<wsClients, wsConn>>

NumStoredMsgs ==
    LET RECURSIVE Sum(_)
        Sum(S) == IF S = {} THEN 0
                  ELSE LET c == CHOOSE x \in S : TRUE
                       IN Len(chats[c].Messages) + Sum(S \ {c})
    IN Sum(DOMAIN chats)

\* The unread counters after a message of senderID: "if participantID != senderID".
IncrementUnread(chat, senderID) ==
    [u \in MsgUsers |->
        IF ChatHasParticipant(chat, u) /\ u # senderID
        THEN chat.UnreadCount[u] + 1 ELSE chat.UnreadCount[u]]

\* The other participant of a conversation, for one of its participants.
OtherParticipant(chat, u) ==
    IF chat.Participants[1] = u THEN chat.Participants[2] ELSE chat.Participants[1]

\* For each participant, the messages the other participant has sent since the
\* participant's last mark-as-read (kept for the properties only).
CountOtherSent(chat, senderID) ==
    [u \in MsgUsers |->
        IF ChatHasParticipant(chat, u) /\ OtherParticipant(chat, u) = senderID
        THEN chat.OtherSent[u] + 1 ELSE chat.OtherSent[u]]

\* MessagingStore.broadcastMessage: the message is written, in the order of
\* chat.Participants, to the connection registered for each participant.
broadcastMessage(conns, chat, msg) ==
    LET RECURSIVE Deliver(_, _)
        Deliver(cs, i) ==
            IF i > Len(chat.Participants) THEN cs
            ELSE LET conn == wsClients[chat.Participants[i]] IN
                 Deliver(IF conn # 0 /\ cs[conn].open
                         THEN [cs EXCEPT ![conn].inbox = Append(@, msg.ID)]
                         ELSE cs, i + 1)
    IN Deliver(conns, 1)

\* An answer that reports every send as sent.
SendResponseAlwaysSent(msg) ==
    [status |-> StatusOK, body |-> [error |-> "", message |-> msg]]

\* The answer of handleSendMessage to what addMessage returned; addMessage
\* returns no error.
SendResponse(msg) ==
    IF msg = NoMessage
    THEN [status |-> StatusInternalServerError,
          body |-> [error |-> "Failed to send message", message |-> NoMessage]]
    ELSE [status |-> StatusOK, body |-> [error |-> "", message |-> msg]]

SendInit ==
    sendLog = [unknown |-> 0,
               response |-> [status |-> 0, body |-> [error |-> "", message |-> NoMessage]]]

\* handleSendMessage for an authenticated caller: MessagingStore.addMessage
\* with the caller as sender, and the answer.
handleSendMessage ==
    /\ \E caller \in MsgUsers, chatID \in DOMAIN chats \cup {UnknownChat} :
         IF chatID \notin DOMAIN chats
         THEN /\ sendLog.unknown < MaxUnknownSends
              /\ sendLog' = [unknown |-> sendLog.unknown + 1,
                             response |-> SendResponse(NoMessage)]
              /\ UNCHANGED <<chats, wsConn, idSeq>>
         ELSE /\ NumStoredMsgs < MaxMsgs
              /\ LET msg == [ID |-> generateID("MSG-", idSeq), ChatID |-> chatID,
                             SenderID |-> caller]
                 IN /\ chats' = [chats EXCEPT ![chatID] =
                          [@ EXCEPT !.Messages = Append(@, msg),
                                    !.LastMessage = msg.ID,
                                    !.UnreadCount = IncrementUnread(chats[chatID], caller),
                                    !.OtherSent = CountOtherSent(chats[chatID], caller)]]
                    /\ wsConn' = broadcastMessage(wsConn, chats[chatID], msg)
                    /\ idSeq' = idSeq + 1
                    /\ sendLog' = [sendLog EXCEPT !.response = SendResponse(msg.ID)]
    /\ UNCHANGED <<userChats, wsClients, lastCall>>

\* MessagingStore.markAsRead as handleMarkAsRead calls it.
markAsRead ==
    /\ \E caller \in MsgUsers, chatID \in DOMAIN chats \cup {UnknownChat} :
         IF chatID \in DOMAIN chats
         THEN chats' = [chats EXCEPT ![chatID] =
                  [@ EXCEPT !.UnreadCount = [@ EXCEPT ![caller] = 0],
                            !.OtherSent = [@ EXCEPT ![caller] = 0]]]
         ELSE UNCHANGED chats
    /\ UNCHANGED <<userChats, wsClients, wsConn, lastCall, idSeq>>

\* MessagingStore.getUserChats: the caller's view of its conversations.
getUserChats(userID) ==
    [i \in 1..Len(userChats[userID]) |->
        LET chat == chats[userChats[userID][i]] IN
        [ID |-> chat.ID, Participants |-> chat.Participants,
         LastMessage |-> chat.LastMessage,
         UnreadCount |-> chat.UnreadCount[userID]]]

\* handleMessagingWebSocket up to its read loop: upgrade, registerWSClient (which
\* closes the connection registered before).
registerWSClient ==
    /\ \E userID \in MsgUsers :
         LET conn == Len(wsConn) + 1
             oldConn == wsClients[userID]
             closed == IF oldConn # 0
                       THEN [wsConn EXCEPT ![oldConn].open = FALSE] ELSE wsConn
         IN /\ conn <= MaxConns
            /\ wsConn' = Append(closed, [user |-> userID, open |-> TRUE,
                                         handler |-> TRUE, inbox |-> <<>>])
            /\ wsClients' = [wsClients EXCEPT ![userID] = conn]
    /\ UNCHANGED <<chats, userChats, lastCall, idSeq>>

\* The client side closes its connection.
ClientCloses ==
    /\ \E conn \in 1..Len(wsConn) :
         /\ wsConn[conn].open
         /\ wsConn' = [wsConn EXCEPT ![conn].open = FALSE]
    /\ UNCHANGED <<chats, userChats, wsClients, lastCall, idSeq>>

\* handleMessagingWebSocket: ReadMessage fails on a closed connection, the loop
\* ends and the deferred unregisterWSClient(user.UserID) runs.
unregisterWSClient ==
    /\ \E conn \in 1..Len(wsConn) :
         /\ ~wsConn[conn].open
         /\ wsConn[conn].handler
         /\ wsConn' = [wsConn EXCEPT ![conn].handler = FALSE]
         /\ wsClients' = [wsClients EXCEPT ![wsConn[conn].user] = 0]
    /\ UNCHANGED <<chats, userChats, lastCall, idSeq>>

MsgInit ==
    /\ chats = <<>>
    /\ userChats = [u \in MsgUsers |-> <<>>]
    /\ wsClients = [u \in MsgUsers |-> 0]
    /\ wsConn = <<>>
    /\ lastCall = [u1 |-> "", u2 |-> "", id |-> NoChat]

(***************************************************************************)
(* Properties of the authentication component.                             *)
(***************************************************************************)
RegisterReqs(u) ==
    {r \in AuthReqIds : authReq[r].kind = "register" /\ authReq[r].username = u}

\* The register requests for u that createUser let through.
RegisterWinners(u) ==
    {r \in RegisterReqs(u) :
        authReq[r].pc = "createToken" \/ authReq[r].status = StatusOK}

RecordsByID(u) == {i \in DOMAIN usersByID : usersByID[i].Username = u}

\* C1 as stated: every registration (a well-formed POST) of a username that is
\* already registered is answered 409.
C1_EveryDuplicateRegistrationIs409 ==
    \A r \in AuthReqIds :
        (/\ authReq[r].pc = "done" /\ authReq[r].kind = "register"
         /\ authReq[r].method = "POST" /\ authReq[r].bodyOk
         /\ authReq[r].taken)
        => authReq[r].status = StatusConflict

\* C1 amended: a registration that passes the length validation for a username
\* that is already registered is answered 409 "username already exists"; every
\* registered username has exactly one record in users and one in usersByID,
\* the one created by the only registration of it that succeeded; registrations
\* of the same new username, concurrent or not, have at most one winner.
C1_DuplicateRegistration ==
    /\ \A r \in AuthReqIds :
          (/\ authReq[r].pc = "done" /\ authReq[r].kind = "register"
           /\ authReq[r].taken
           /\ authReq[r].status \notin {StatusBadRequest, StatusMethodNotAllowed})
          => /\ authReq[r].status = StatusConflict
             /\ authReq[r].message = "username already exists"
    /\ \A u \in Usernames :
          /\ Cardinality(RecordsByID(u)) = IF u \in DOMAIN users THEN 1 ELSE 0
          /\ Cardinality(RegisterWinners(u)) = IF u \in DOMAIN users THEN 1 ELSE 0
          /\ u \in DOMAIN users =>
                /\ users[u].Username = u
                /\ users[u].UserID \in DOMAIN usersByID
                /\ usersByID[users[u].UserID] = users[u]
                /\ \A r \in RegisterWinners(u) : authReq[r].user = users[u]

\* Two registrations of the same new username raced (neither saw it taken when
\* it started): one got 200, the other 409.
C1_Witness ==
    \E r1, r2 \in AuthReqIds :
        /\ r1 # r2
        /\ authReq[r1].kind = "register" /\ authReq[r2].kind = "register"
        /\ authReq[r1].username = authReq[r2].username
        /\ ~authReq[r1].taken /\ ~authReq[r2].taken
        /\ authReq[r1].status = StatusOK
        /\ authReq[r2].status = StatusConflict
        /\ authReq[r2].message = "username already exists"

FailedLogins(cause) ==
    {r \in AuthReqIds : /\ authReq[r].kind = "login" /\ authReq[r].pc = "done"
                        /\ authReq[r].cause = cause}

\* What the caller of a login sees.
Observable(r) ==
    [status |-> authReq[r].status, message |-> authReq[r].message,
     token |-> authReq[r].token]

\* C2: a login with an unknown username and a login with a registered username
\* and a wrong password get the same response: 401 and the same message text.
C2_LoginFailuresIndistinguishable ==
    \A r1 \in FailedLogins("unknownUser"), r2 \in FailedLogins("wrongPassword") :
        /\ Observable(r1) = Observable(r2)
        /\ authReq[r1].status = StatusUnauthorized

C2_Witness ==
    /\ FailedLogins("unknownUser") # {}
    /\ FailedLogins("wrongPassword") # {}

(***************************************************************************)
(* Properties of the messaging component.                                  *)
(***************************************************************************)
ParticipantSet(c) ==
    {chats[c].Participants[i] : i \in 1..Len(chats[c].Participants)}

\* C3: getOrCreateChat is symmetric and idempotent: the conversation a call
\* returned is the one a call with the same users, in either order, returns
\* from then on, and no two conversations have the same unordered pair of users.
C3_GetOrCreateChatSymmetric ==
    /\ \A c1, c2 \in DOMAIN chats :
          c1 # c2 => ParticipantSet(c1) # ParticipantSet(c2)
    /\ \A c \in DOMAIN chats :
          LET a == chats[c].Participants[1]
              b == chats[c].Participants[2]
          IN /\ FindChat(chats, userChats, a, b) = c
             /\ FindChat(chats, userChats, b, a) = c
    /\ lastCall.id # NoChat =>
          /\ lastCall.id \in DOMAIN chats
          /\ FindChat(chats, userChats, lastCall.u1, lastCall.u2) = lastCall.id
          /\ FindChat(chats, userChats, lastCall.u2, lastCall.u1) = lastCall.id

\* A call with the users in the opposite order returned the existing conversation.
C3_Witness ==
    /\ lastCall.id \in DOMAIN chats
    /\ lastCall.u1 # lastCall.u2
    /\ chats[lastCall.id].Participants = <<lastCall.u2, lastCall.u1>>
    /\ Cardinality(DOMAIN chats) = MaxChats

\* C4: in a conversation of two users, the unread counter of each participant
\* is the number of messages the other participant has sent since that
\* participant's last mark-as-read.
C4_UnreadCountsOtherParticipantsMessages ==
    \A c \in DOMAIN chats :
        chats[c].Participants[1] # chats[c].Participants[2] =>
            \A u \in ParticipantSet(c) :
                chats[c].UnreadCount[u] = chats[c].OtherSent[u]

\* C15: a user has at most one open connection, and an open connection of a
\* user is the one registered for that user, so that it is the one that
\* receives the user's new_message events; the connection registered before
\* it is closed.
C15_OneConnectionPerUser ==
    \A u \in MsgUsers :
        /\ Cardinality({c \in 1..Len(wsConn) : wsConn[c].user = u /\ wsConn[c].open}) <= 1
        /\ \A c \in 1..Len(wsConn) :
              (wsConn[c].user = u /\ wsConn[c].open) => wsClients[u] = c

\* A second connection of a user is registered and the first one is closed.
C15_Replaced ==
    \E c1, c2 \in 1..Len(wsConn) :
        /\ c1 < c2 /\ wsConn[c1].user = wsConn[c2].user
        /\ ~wsConn[c1].open /\ wsConn[c2].open
        /\ wsClients[wsConn[c2].user] = c2

\* C22: the handler of a connection that ends unregisters only its own
\* connection: when a user's older connection was replaced and its handler
\* ends, the registry still maps the user to the newer connection, which
\* goes on receiving the new_message events.
C22_HandlerUnregistersOwn ==
    [][\A c \in 1..Len(wsConn) :
          (wsConn[c].handler /\ ~wsConn'[c].handler) =>
              \A u \in MsgUsers :
                  wsClients[u] # c => wsClients'[u] = wsClients[u]]_<<wsConn, wsClients>>

\* C23: every message stored in a conversation was sent by one of the
\* conversation's participants.
C23_SenderIsParticipant ==
    \A c \in DOMAIN chats :
        \A i \in 1..Len(chats[c].Messages) :
            chats[c].Messages[i].SenderID \in ParticipantSet(c)

\* C20: a send to an unknown conversation id stores no message, leaves every
\* conversation with its messages, lastMessage and unread counters, every
\* user's conversation list and every websocket connection as they were,
\* and is answered 500 with an error text and no message.
C20_SendToUnknownChat ==
    [][sendLog'.unknown # sendLog.unknown =>
          /\ UNCHANGED <<chats, userChats, wsClients, wsConn, idSeq>>
          /\ sendLog'.response.status = 500
          /\ sendLog'.response.body.message = NoMessage
          /\ sendLog'.response.body.error # ""]_<<msgVars, sendVars, idSeq>>

\* A message was sent in a conversation with a listener connected, and after
\* it a send to an unknown conversation was answered.
C20_Witness ==
    /\ sendLog.unknown > 0
    /\ sendLog.response.status = 500
    /\ NumStoredMsgs > 0
    /\ \E c \in 1..Len(wsConn) : wsConn[c].open /\ Len(wsConn[c].inbox) > 0

(***************************************************************************)
(* Component 3: relay (TURN) tokens and credentials.                       *)
(***************************************************************************)
VARIABLES
    turnEnv,      \* the process environment: TURN_TOKEN_SECRET, TURN_SECRET, STUN_HOST
    now,          \* time.Now().Unix()
    turnIssued,   \* the token issued last
    turnResp      \* the last answer of the turn-credentials endpoint

turnVars == <<turnEnv, now, turnIssued, turnResp>>

\* The last second of a run.
MaxNow == 3

turnTokenVersion == 1

turnTokenKindCall == "call"

turnTokenKindDiagnostic == "diagnostic"

CallCredentialTTL == 900

DiagnosticCredentialTTL == 5

DiagnosticTokenTTL == 5

StatusServiceUnavailable == 503

\* Lifetimes of the call tokens handed out at join.
CallTokenTTLs == {1, 2}

TurnKinds == {turnTokenKindCall, turnTokenKindDiagnostic}

\* HMAC-SHA256 of msg under key.
HmacSha256(key, msg) == [key |-> key, msg |-> msg]

\* HMAC-SHA1 of msg under key.
HmacSha1(key, msg) == <<"hmac-sha1", key, msg>>

TurnClaims(v, kind, exp) == [json |-> TRUE, V |-> v, Kind |-> kind, Exp |-> exp]

\* A payload that is valid base64 but not the JSON of turnTokenClaims.
NotJson == [json |-> FALSE, V |-> 0, Kind |-> "", Exp |-> 0]

\* r.URL.Query().Get("token") of a request without a token.
NoToken == [form |-> "empty", payload |-> NotJson, sig |-> HmacSha256("", NotJson)]

\* Tokens a client can make up: every form the parser distinguishes, claims of
\* another version and of every kind, signatures under either key over the
\* payload sent or over another payload.
ForgedTokens ==
    LET signed == TurnClaims(turnTokenVersion, turnTokenKindCall, 2)
        payloads == {signed,
                     TurnClaims(turnTokenVersion, turnTokenKindDiagnostic, 2),
                     TurnClaims(turnTokenVersion, "other", 2),
                     TurnClaims(2, turnTokenKindCall, 2),
                     NotJson}
    IN UNION {{[form |-> "ok", payload |-> p, sig |-> HmacSha256(key, m)] :
                    key \in {"k1", "k2"}, m \in {p, signed}} : p \in payloads}
       \cup {[form |-> f, payload |-> signed, sig |-> HmacSha256("k1", signed)] :
                f \in {"parts", "payloadBase64", "sigBase64"}}

getTurnTokenSecret(env) ==
    IF env.TURN_TOKEN_SECRET # "" THEN env.TURN_TOKEN_SECRET ELSE env.TURN_SECRET

\* issueTurnToken; NoToken stands for its error return.
issueTurnToken(ttl, kind, env, t) ==
    LET secret == getTurnTokenSecret(env)
        payload == TurnClaims(turnTokenVersion, kind, t + ttl)
    IN IF secret = "" THEN NoToken
       ELSE [form |-> "ok", payload |-> payload, sig |-> HmacSha256(secret, payload)]

\* parseTurnToken: two parts, both base64, a signature of parts[0] under the
\* configured secret, a payload that unmarshals.
parseTurnToken(token, env) ==
    /\ token.form = "ok"
    /\ getTurnTokenSecret(env) # ""
    /\ HmacSha256(getTurnTokenSecret(env), token.payload) = token.sig
    /\ token.payload.json

\* An expiry test that also rejects a token in its last second.
TokenExpiredAtExp(t, exp) == t >= exp

\* validateTurnToken: "if time.Now().Unix() > claims.Exp".
TokenExpired(t, exp) == t > exp

validateTurnToken(token, kind, env, t) ==
    /\ parseTurnToken(token, env)
    /\ token.payload.V = turnTokenVersion
    /\ token.payload.Kind = kind
    /\ ~TokenExpired(t, token.payload.Exp)

\* The kind handleTurnCredentials authorises a token as.
AuthorizedKind(token, env, t) ==
    IF validateTurnToken(token, turnTokenKindCall, env, t) THEN turnTokenKindCall
    ELSE IF validateTurnToken(token, turnTokenKindDiagnostic, env, t)
         THEN turnTokenKindDiagnostic
         ELSE "none"

\* A ttl selection that forgets the diagnostic branch.
CredentialTTLDefault(kind) == CallCredentialTTL

\* handleTurnCredentials: credentialTTL.
CredentialTTL(kind) ==
    IF kind = turnTokenKindDiagnostic THEN DiagnosticCredentialTTL ELSE CallCredentialTTL

NoCredential == [username |-> <<0, "">>, password |-> HmacSha1("", <<0, "">>), ttl |-> 0]

\* An endpoint that mints a credential without looking at TURN_SECRET and
\* STUN_HOST.
TurnCredentialsResponseUnconfigured(method, token, env, t, t2) ==
    LET kind == AuthorizedKind(token, env, t)
        ttl == CredentialTTL(kind)
        username == <<t2 + ttl, "client">>
        base == [method |-> method, token |-> token, validatedAt |-> t,
                 issuedAt |-> t2, status |-> 0, kind |-> "none",
                 credential |-> NoCredential]
    IN IF method # "GET" THEN [base EXCEPT !.status = StatusMethodNotAllowed]
       ELSE IF token = NoToken \/ kind = "none"
            THEN [base EXCEPT !.status = StatusUnauthorized]
            ELSE [base EXCEPT !.status = StatusOK, !.kind = kind,
                              !.credential = [username |-> username,
                                              password |-> HmacSha1(env.TURN_SECRET, username),
                                              ttl |-> ttl]]

\* The answer of handleTurnCredentials to a request made at second t whose
\* credential is minted at second t2.
TurnCredentialsResponse(method, token, env, t, t2) ==
    LET kind == AuthorizedKind(token, env, t)
        ttl == CredentialTTL(kind)
        username == <<t2 + ttl, "client">>
        base == [method |-> method, token |-> token, validatedAt |-> t,
                 issuedAt |-> t2, status |-> 0, kind |-> "none",
                 credential |-> NoCredential]
    IN IF method # "GET" THEN [base EXCEPT !.status = StatusMethodNotAllowed]
       ELSE IF token = NoToken THEN [base EXCEPT !.status = StatusUnauthorized]
       ELSE IF kind = "none" THEN [base EXCEPT !.status = StatusUnauthorized]
       ELSE IF env.TURN_SECRET = "" \/ env.STUN_HOST = ""
            THEN [base EXCEPT !.status = StatusServiceUnavailable, !.kind = kind]
            ELSE [base EXCEPT !.status = StatusOK, !.kind = kind,
                              !.credential = [username |-> username,
                                              password |-> HmacSha1(env.TURN_SECRET, username),
                                              ttl |-> ttl]]

\* GET /api/turn-credentials?token=...; the clock may move on between the
\* validation and the minting of the credential.
handleTurnCredentials ==
    /\ \E req \in {[method |-> "GET", token |-> t] :
                       t \in ForgedTokens \cup {NoToken, turnIssued}}
                  \cup {[method |-> "POST", token |-> NoToken]},
          d \in {0, 1} :
         /\ now + d <= MaxNow
         /\ now' = now + d
         /\ turnResp' = TurnCredentialsResponse(req.method, req.token, turnEnv,
                                                now, now + d)
    /\ UNCHANGED <<turnEnv, turnIssued>>

\* handleDiagnosticToken: a diagnostic token of five seconds (503 and no token
\* without a signing secret).
handleDiagnosticToken ==
    /\ turnIssued' = issueTurnToken(DiagnosticTokenTTL, turnTokenKindDiagnostic,
                                    turnEnv, now)
    /\ UNCHANGED <<turnEnv, now, turnResp>>

\* issueTurnToken for a participant that joins a call.
issueCallToken ==
    /\ \E ttl \in CallTokenTTLs :
         turnIssued' = issueTurnToken(ttl, turnTokenKindCall, turnEnv, now)
    /\ UNCHANGED <<turnEnv, now, turnResp>>

\* The wall clock advances.
Tick ==
    /\ now < MaxNow
    /\ now' = now + 1
    /\ UNCHANGED <<turnEnv, turnIssued, turnResp>>

TurnInit ==
    /\ turnEnv \in [TURN_TOKEN_SECRET : {"", "k1"}, TURN_SECRET : {"", "k2"},
                    STUN_HOST : {"", "stun.example.org"}]
    /\ now = 0
    /\ turnIssued = NoToken
    /\ turnResp = TurnCredentialsResponse("POST", NoToken, turnEnv, 0, 0)

(***************************************************************************)
(* Properties of the relay-token component.                                *)
(***************************************************************************)
\* The signature of a token verifies under the configured secret.
SignatureVerifies(token) ==
    /\ token.form = "ok"
    /\ getTurnTokenSecret(turnEnv) # ""
    /\ token.sig.key = getTurnTokenSecret(turnEnv)
    /\ token.sig.msg = token.payload

\* What C5 states of a token, an expected kind and a time.
TokenIsGood(token, kind, t) ==
    /\ SignatureVerifies(token)
    /\ token.payload.json
    /\ token.payload.V = 1
    /\ token.payload.Kind = kind
    /\ t <= token.payload.Exp

\* C5: validateTurnToken(token, kind) is true iff the signature verifies under
\* the configured secret, the version is 1, the kind is the expected kind and
\* the time is not past the expiry; the endpoint authorises a token as a kind
\* exactly under these conditions, so never a diagnostic token as call, never
\* an expired one and never one signed with another secret.
C5_ValidateTurnToken ==
    /\ \A token \in ForgedTokens \cup {NoToken, turnIssued}, kind \in TurnKinds :
          validateTurnToken(token, kind, turnEnv, now) <=> TokenIsGood(token, kind, now)
    /\ turnResp.method = "GET" =>
          /\ turnResp.kind = turnTokenKindCall
                <=> TokenIsGood(turnResp.token, turnTokenKindCall, turnResp.validatedAt)
          /\ turnResp.kind = turnTokenKindDiagnostic
                <=> TokenIsGood(turnResp.token, turnTokenKindDiagnostic, turnResp.validatedAt)

\* A token is accepted in the last second of its life, and the token issued
\* last has expired.
C5_Witness ==
    /\ turnResp.method = "GET"
    /\ turnResp.kind = turnTokenKindDiagnostic
    /\ turnResp.token.payload.Exp = turnResp.validatedAt
    /\ turnIssued # NoToken
    /\ now > turnIssued.payload.Exp
    /\ ~validateTurnToken(turnIssued, turnIssued.payload.Kind, turnEnv, now)

\* C6 as stated: a token that validates as call gets a credential of ttl 900,
\* one that validates as diagnostic a credential of ttl 5, any other 401.
C6_TtlForEveryValidToken ==
    turnResp.method = "GET" =>
        LET kind == AuthorizedKind(turnResp.token, turnEnv, turnResp.validatedAt) IN
        /\ kind = turnTokenKindCall =>
              turnResp.status = StatusOK /\ turnResp.credential.ttl = 900
        /\ kind = turnTokenKindDiagnostic =>
              turnResp.status = StatusOK /\ turnResp.credential.ttl = 5
        /\ kind = "none" => turnResp.status = StatusUnauthorized

\* C6: a GET without a token or with a token that validates as neither kind is
\* answered 401 without a credential; a token that validates is answered 503
\* without a credential when TURN_SECRET or STUN_HOST is unset, and else gets
\* ttl 900 as call and ttl 5 as diagnostic, the username carrying the time of
\* minting plus that ttl.
C6_TurnCredentials ==
    turnResp.method = "GET" =>
        LET good(kind) == TokenIsGood(turnResp.token, kind, turnResp.validatedAt)
            configured == turnEnv.TURN_SECRET # "" /\ turnEnv.STUN_HOST # ""
            ttl == IF good(turnTokenKindCall) THEN 900 ELSE 5
        IN /\ ~good(turnTokenKindCall) /\ ~good(turnTokenKindDiagnostic) =>
                 turnResp.status = StatusUnauthorized /\ turnResp.credential = NoCredential
           /\ (good(turnTokenKindCall) \/ good(turnTokenKindDiagnostic)) /\ ~configured =>
                 turnResp.status = StatusServiceUnavailable
                 /\ turnResp.credential = NoCredential
           /\ (good(turnTokenKindCall) \/ good(turnTokenKindDiagnostic)) /\ configured =>
                 /\ turnResp.status = StatusOK
                 /\ turnResp.credential.ttl = ttl
                 /\ turnResp.credential.username[1] = turnResp.issuedAt + ttl

\* A diagnostic token issued by the server got ttl 5 one second after it was
\* validated.
C6_Witness ==
    /\ turnResp.status = StatusOK
    /\ turnResp.kind = turnTokenKindDiagnostic
    /\ turnResp.token = turnIssued
    /\ turnResp.credential.ttl = 5
    /\ turnResp.issuedAt = turnResp.validatedAt + 1

\* TURN_SECRET or STUN_HOST is unset.
RelayUnconfigured == turnEnv.TURN_SECRET = "" \/ turnEnv.STUN_HOST = ""

\* C21 as stated: with the relay secret or the STUN host unset, every
\* relay-credential request is answered 503, whatever token it presents.
C21_Always503 ==
    RelayUnconfigured /\ turnResp.method = "GET" =>
        turnResp.status = StatusServiceUnavailable

\* C21: with the relay secret or the STUN host unset no request gets a
\* credential, for every signing secret and every token: a GET whose token
\* validates as call or diagnostic is answered 503, a GET without a token
\* or with a token that does not validate is answered 401 before the
\* configuration is looked at, and another method 405.
C21_Unconfigured ==
    RelayUnconfigured =>
        /\ turnResp.credential = NoCredential
        /\ turnResp.status # 200
        /\ turnResp.method = "GET" =>
              LET valid == \E kind \in TurnKinds :
                              TokenIsGood(turnResp.token, kind, turnResp.validatedAt)
              IN /\ valid => turnResp.status = 503
                 /\ ~valid => turnResp.status = 401
        /\ turnResp.method # "GET" => turnResp.status = 405

\* The signing secret is set and the relay secret is not: a call token the
\* server issued is answered 503.
C21_Witness ==
    /\ turnEnv.TURN_SECRET = "" /\ turnEnv.TURN_TOKEN_SECRET # ""
    /\ turnEnv.STUN_HOST # ""
    /\ turnResp.method = "GET"
    /\ turnResp.token = turnIssued
    /\ turnResp.kind = turnTokenKindCall
    /\ turnResp.status = 503
    /\ turnResp.credential = NoCredential

(***************************************************************************)
(* Component 4: push subscriptions, snapshots and join notifications       *)
(* (main.go).  Database and file operations succeed.                       *)
(***************************************************************************)
VARIABLES
    subs,         \* the subscriptions table, in rowid order
    subSeq,       \* sqlite_sequence of the table: the largest id ever given
    snapFiles,    \* the metadata files of the snapshot directory, by file name
    snapSeq,      \* snapshot ids generated
    pushCalls,    \* the SendNotificationToRoom calls made, with the table they read
    pushTasks     \* the sendOne goroutines started, pending or done

pushVars == <<subs, subSeq, snapFiles, snapSeq, pushCalls, pushTasks>>

VARIABLES
    subLog        \* what the Subscribe and Unsubscribe calls so far asked for

subVars == <<subLog>>

\* Subscribe calls of one run.
MaxSubscribes == 3

\* Snapshot uploads of one run.
MaxSnapshots == 1

\* SendNotificationToRoom calls of one run.
MaxPushCalls == 1

Rooms == {"r1", "r2"}

Endpoints == {"e1", "e2"}

Digits == <<"0", "1", "2", "3", "4", "5", "6", "7", "8", "9">>

\* strconv.Itoa and fmt.Sprintf("%d") of a number below 100.
Itoa(n) == IF n < 10 THEN <<Digits[n + 1]>>
           ELSE <<Digits[(n \div 10) + 1], Digits[(n % 10) + 1]>>

\* The characters isSafeSnapshotID lets pass, of those the ids of a run use.
SafeChars == {Digits[i] : i \in 1..10} \cup {"S", "N", "A", "P", "x", "-", "_"}

\* A test that lets every non-empty id pass.
isSafeSnapshotIDNonEmpty(id) == id # <<>>

isSafeSnapshotID(id) ==
    /\ id # <<>>
    /\ \A i \in 1..Len(id) : id[i] \in SafeChars

\* The id of the n-th snapshot as a string of characters.
SnapshotID(n) == <<"S", "N", "A", "P", "-">> \o Itoa(generateID("SNAP-", n - 1)[2])

\* filepath.Join(getSnapshotDir(), id + ".json"): Clean drops "./" elements.
snapshotMetaPath(id) ==
    LET RECURSIVE Clean(_)
        Clean(path) == IF Len(path) >= 2 /\ path[1] = "." /\ path[2] = "/"
                       THEN Clean(SubSeq(path, 3, Len(path)))
                       ELSE path
    IN Clean(id)

NoMeta ==
    [ok |-> FALSE, IV |-> "", Salt |-> "", EphemeralKey |-> "", Mime |-> "",
     Recipients |-> <<>>]

\* loadSnapshotMeta: the file's content, or an error.
loadSnapshotMeta(id) ==
    IF snapshotMetaPath(id) \in DOMAIN snapFiles
    THEN snapFiles[snapshotMetaPath(id)] ELSE NoMeta

\* The snapshot ids a join can name: none, the ids of the run's snapshots, the
\* same with "./" in front, and an id no snapshot has.
SnapshotIDInputs ==
    {<<>>, <<"x">>}
    \cup {SnapshotID(n) : n \in 1..MaxSnapshots}
    \cup {<<".", "/">> \o SnapshotID(n) : n \in 1..MaxSnapshots}

\* The encPublicKey member of a subscribe request as the decoder hands it
\* over: absent, the JSON null, a JSON value, and a value between spaces.
EncPublicKeys == {<<>>, <<"null">>, <<"{jwk}">>, <<" ", "{jwk}", " ">>}

\* PushSubscriptionRequest
PushSubscriptionRequests ==
    [Endpoint : Endpoints, Auth : {"auth1", "auth2"}, P256dh : {"p256dh1"},
     Locale : {"", "fr"}, EncPublicKey : EncPublicKeys]

\* The request of a client that sends no locale and no encryption key.
PlainSubscription(sub) == sub.Auth = "auth1" /\ sub.Locale = "" /\ sub.EncPublicKey = <<>>

\* strings.TrimSpace
RECURSIVE TrimSpace(_)
TrimSpace(str) ==
    IF str = <<>> THEN str
    ELSE IF str[1] = " " THEN TrimSpace(Tail(str))
    ELSE IF str[Len(str)] = " " THEN TrimSpace(SubSeq(str, 1, Len(str) - 1))
    ELSE str

\* A locale column that takes the request's locale as it is.
SubscribeLocaleAsGiven(sub) == sub.Locale

\* The locale Subscribe stores.
SubscribeLocale(sub) == IF sub.Locale = "" THEN "en" ELSE sub.Locale

\* The enc_pubkey Subscribe stores.
SubscribeEncKey(sub) ==
    IF TrimSpace(sub.EncPublicKey) = <<"null">> THEN <<>>
    ELSE TrimSpace(sub.EncPublicKey)

NoSubscription ==
    [Endpoint |-> "", Auth |-> "", P256dh |-> "", Locale |-> "", EncPublicKey |-> <<>>]

\* No call has been made.
SubInit ==
    subLog = [latest |-> [pair \in Rooms \X Endpoints |-> NoSubscription],
              ever |-> {}, idle |-> {}, plain |-> TRUE, err |-> "nil"]

\* PushService.Subscribe: INSERT OR REPLACE removes the row of the same
\* (room_id, endpoint) and inserts a row with the next AUTOINCREMENT id.
Subscribe ==
    /\ subSeq < MaxSubscribes
    /\ \E roomID \in Rooms, sub \in PushSubscriptionRequests :
         LET kept == SelectSeq(subs, LAMBDA row :
                        ~(row.RoomID = roomID /\ row.Endpoint = sub.Endpoint))
         IN /\ subs' = Append(kept, [ID |-> subSeq + 1, RoomID |-> roomID,
                                     Endpoint |-> sub.Endpoint,
                                     Auth |-> sub.Auth, P256dh |-> sub.P256dh,
                                     Locale |-> SubscribeLocale(sub),
                                     EncPubKey |-> SubscribeEncKey(sub)])
            /\ subLog' = [subLog EXCEPT !.latest[<<roomID, sub.Endpoint>>] = sub,
                                        !.ever = @ \cup {<<roomID, sub.Endpoint>>},
                                        !.plain = @ /\ PlainSubscription(sub),
                                        !.err = "nil"]
    /\ subSeq' = subSeq + 1
    /\ UNCHANGED <<snapFiles, snapSeq, pushCalls, pushTasks>>

\* The table after PushService.Unsubscribe.
DeleteSubscription(table, roomID, endpoint) ==
    SelectSeq(table, LAMBDA row : ~(row.RoomID = roomID /\ row.Endpoint = endpoint))

\* PushService.Unsubscribe
Unsubscribe ==
    /\ \E roomID \in Rooms, endpoint \in Endpoints :
         /\ subs' = DeleteSubscription(subs, roomID, endpoint)
         /\ subLog' = [subLog EXCEPT
               !.latest[<<roomID, endpoint>>] = NoSubscription,
               !.idle = IF \E i \in 1..Len(subs) :
                              subs[i].RoomID = roomID /\ subs[i].Endpoint = endpoint
                        THEN @
                        ELSE IF <<roomID, endpoint>> \in subLog.ever
                             THEN @ \cup {"repeated"}
                             ELSE @ \cup {"never"},
               !.err = "nil"]
    /\ UNCHANGED <<subSeq, snapFiles, snapSeq, pushCalls, pushTasks>>

\* The wrapped key a client uploads for recipient id.
WrappedKeyFor(id) == [WrappedKey |-> <<"wrapped", id>>, WrappedKeyIV |-> <<"iv", id>>]

\* handlePushSnapshot POST for a request whose ciphertext, iv, salt and
\* ephemeral key pass the checks: the recipients with a positive id are kept
\* under strconv.Itoa(id); 400 and no file when none is left.
handlePushSnapshot ==
    /\ snapSeq < MaxSnapshots
    /\ \E ids \in SUBSET (0..MaxSubscribes - 1) :
         LET valid == {id \in ids : ~(id <= 0)}
             recipients == [k \in {Itoa(id) : id \in valid} |->
                              WrappedKeyFor(CHOOSE id \in valid : Itoa(id) = k)]
             id == SnapshotID(snapSeq + 1)
             meta == [ok |-> TRUE, IV |-> "iv", Salt |-> "salt",
                      EphemeralKey |-> "epk", Mime |-> "image/jpeg",
                      Recipients |-> recipients]
         IN IF valid = {}
            THEN UNCHANGED <<snapFiles, snapSeq>>
            ELSE /\ snapFiles' = [f \in DOMAIN snapFiles \cup {id} |->
                                    IF f = id THEN meta ELSE snapFiles[f]]
                 /\ snapSeq' = snapSeq + 1
    /\ UNCHANGED <<subs, subSeq, pushCalls, pushTasks>>

\* What webpush.SendNotification returns: an error, or a response with a
\* status code.
NoResponse == [err |-> "nil", StatusCode |-> 0]

SendError == [err |-> "transport", StatusCode |-> 0]

Response(code) == [err |-> "nil", StatusCode |-> code]

PushResponses == {SendError} \cup {Response(code) : code \in {200, 201, 404, 410, 500}}

\* A filter that excludes nobody.
IsExcludedNever(sd, excludeEndpoint) == FALSE

\* SendNotificationToRoom: "if sd.Endpoint == excludeEndpoint { continue }".
IsExcluded(sd, excludeEndpoint) == sd.Endpoint = excludeEndpoint

\* PushService.SendNotificationToRoom: the rows of the room, the excluded
\* endpoint skipped, the metadata loaded once, one goroutine per target.
SendNotificationToRoom ==
    /\ Len(pushCalls) < MaxPushCalls
    /\ \E roomID \in Rooms, excludeEndpoint \in Endpoints \cup {""},
          snapshotID \in SnapshotIDInputs :
         LET call == Len(pushCalls) + 1
             rows == SelectSeq(subs, LAMBDA row : row.RoomID = roomID)
             targets == SelectSeq(rows, LAMBDA sd : ~IsExcluded(sd, excludeEndpoint))
             snapshotMeta == IF snapshotID # <<>> /\ isSafeSnapshotID(snapshotID)
                             THEN loadSnapshotMeta(snapshotID) ELSE NoMeta
         IN /\ pushCalls' = Append(pushCalls,
                  [roomID |-> roomID, excludeEndpoint |-> excludeEndpoint,
                   snapshotID |-> snapshotID, table |-> subs, files |-> snapFiles])
            /\ pushTasks' = pushTasks \o
                  [i \in 1..Len(targets) |->
                      [call |-> call, roomID |-> roomID, target |-> targets[i],
                       snapshotID |-> snapshotID, snapshotMeta |-> snapshotMeta,
                       sent |-> FALSE, resp |-> NoResponse, payload |-> <<>>]]
    /\ UNCHANGED <<subs, subSeq, snapFiles, snapSeq>>

\* The payload sendOne builds.
Payload(roomID, target, snapshotID, snapshotMeta) ==
    LET plain == [url |-> <<"/call/", roomID>>]
        key == Itoa(target.ID)
    IN IF snapshotID # <<>> /\ snapshotMeta.ok /\ key \in DOMAIN snapshotMeta.Recipients
       THEN [url |-> <<"/call/", roomID>>,
             snapshotId |-> snapshotID,
             snapshotIv |-> snapshotMeta.IV,
             snapshotSalt |-> snapshotMeta.Salt,
             snapshotEphemeralPubKey |-> snapshotMeta.EphemeralKey,
             snapshotKey |-> snapshotMeta.Recipients[key].WrappedKey,
             snapshotKeyIv |-> snapshotMeta.Recipients[key].WrappedKeyIV,
             snapshotMime |-> snapshotMeta.Mime]
       ELSE plain

\* A provider whose only "gone" answer is 410.
IsGone410(resp) == resp.err = "nil" /\ resp.StatusCode = 410

\* sendOne: "resp.StatusCode == 410 || resp.StatusCode == 404", reached when
\* err is nil and the status is neither 201 nor 200.
IsGone(resp) ==
    /\ resp.err = "nil"
    /\ ~(resp.StatusCode = 201 \/ resp.StatusCode = 200)
    /\ (resp.StatusCode = 410 \/ resp.StatusCode = 404)

\* PushService.sendOne with one of the responses: the payload goes to the
\* push provider; on 404 or 410 the subscription is removed.
sendOne(responses) ==
    /\ \E i \in 1..Len(pushTasks), resp \in responses :
         LET task == pushTasks[i] IN
         /\ ~task.sent
         /\ pushTasks' = [pushTasks EXCEPT ![i] =
               [@ EXCEPT !.sent = TRUE, !.resp = resp,
                         !.payload = Payload(task.roomID, task.target,
                                             task.snapshotID, task.snapshotMeta)]]
         /\ subs' = IF IsGone(resp)
                    THEN DeleteSubscription(subs, task.roomID, task.target.Endpoint)
                    ELSE subs
    /\ UNCHANGED <<subSeq, snapFiles, snapSeq, pushCalls>>

PushInit ==
    /\ subs = <<>>
    /\ subSeq = 0
    /\ snapFiles = <<>>
    /\ snapSeq = 0
    /\ pushCalls = <<>>
    /\ pushTasks = <<>>

(***************************************************************************)
(* Properties of the push component.                                       *)
(***************************************************************************)
\* The goroutines (pending or done) of call c that target the row sd.
TasksFor(c, sd) ==
    {i \in 1..Len(pushTasks) : pushTasks[i].call = c /\ pushTasks[i].target = sd}

\* The rows of the table a call read.
RowsRead(c) == {pushCalls[c].table[i] : i \in 1..Len(pushCalls[c].table)}

\* C7: SendNotificationToRoom starts no push for a subscription whose endpoint
\* is excludeEndpoint, exactly one push for every other subscription of the
\* room, and none for a subscription of another room.
C7_FanOut ==
    \A c \in 1..Len(pushCalls) :
        /\ \A sd \in RowsRead(c) :
              Cardinality(TasksFor(c, sd)) =
                 IF sd.RoomID = pushCalls[c].roomID
                    /\ sd.Endpoint # pushCalls[c].excludeEndpoint
                 THEN 1 ELSE 0
        /\ \A i \in 1..Len(pushTasks) :
              pushTasks[i].call = c => pushTasks[i].target \in RowsRead(c)

\* A call excluded a subscriber of the room, pushed to the other one, which
\* has been sent, and left alone a subscriber of another room.
C7_Witness ==
    /\ Len(pushCalls) >= 1
    /\ \E x, y, z \in RowsRead(1) :
         /\ x.RoomID = pushCalls[1].roomID /\ x.Endpoint = pushCalls[1].excludeEndpoint
         /\ y.RoomID = pushCalls[1].roomID /\ y.Endpoint # pushCalls[1].excludeEndpoint
         /\ z.RoomID # pushCalls[1].roomID
         /\ \E i \in TasksFor(1, y) : pushTasks[i].sent
    /\ \A i \in 1..Len(pushTasks) : pushTasks[i].sent

HasSnapshotFields(payload) ==
    {"snapshotId", "snapshotIv", "snapshotSalt", "snapshotEphemeralPubKey",
     "snapshotKey", "snapshotKeyIv"} \subseteq DOMAIN payload

\* The id is made of letters, digits, '-' and '_' only, and is not empty.
WellFormedID(id) == id # <<>> /\ \A i \in 1..Len(id) : id[i] \in SafeChars

\* C8: the payload sent to a target carries the snapshot fields iff the call
\* named a well-formed snapshot id, the metadata file of that id existed when
\* the call loaded it, and the target's id is a key of its recipient map; the
\* wrapped key is the one stored under that id; every other payload is plain.
C8_SnapshotPayload ==
    \A i \in 1..Len(pushTasks) :
        pushTasks[i].sent =>
            LET call == pushCalls[pushTasks[i].call]
                id == call.snapshotID
                key == Itoa(pushTasks[i].target.ID)
                payload == pushTasks[i].payload
                attach == /\ WellFormedID(id)
                          /\ id \in DOMAIN call.files
                          /\ key \in DOMAIN call.files[id].Recipients
            IN /\ HasSnapshotFields(payload) <=> attach
               /\ attach =>
                     /\ payload.snapshotId = id
                     /\ payload.snapshotKey = call.files[id].Recipients[key].WrappedKey
                     /\ payload.snapshotKey = <<"wrapped", pushTasks[i].target.ID>>
                     /\ payload.snapshotKeyIv = call.files[id].Recipients[key].WrappedKeyIV
               /\ ~attach => DOMAIN payload = {"url"}

\* One call with a snapshot sent the snapshot fields to a recipient of the
\* snapshot and the plain payload to a subscriber that is none.
C8_Witness ==
    \E i, j \in 1..Len(pushTasks) :
        /\ pushTasks[i].sent /\ pushTasks[j].sent
        /\ pushTasks[i].call = pushTasks[j].call
        /\ HasSnapshotFields(pushTasks[i].payload)
        /\ DOMAIN pushTasks[j].payload = {"url"}
        /\ pushCalls[pushTasks[i].call].snapshotID \in DOMAIN snapFiles

\* The rows of the table for room roomID and endpoint.
RowsOf(roomID, endpoint) ==
    SelectSeq(subs, LAMBDA row : row.RoomID = roomID /\ row.Endpoint = endpoint)

\* The row carries what request sub asked for.
RowCarries(row, sub) ==
    /\ row.Endpoint = sub.Endpoint
    /\ row.Auth = sub.Auth
    /\ row.P256dh = sub.P256dh
    /\ row.Locale = (IF sub.Locale = "" THEN "en" ELSE sub.Locale)
    /\ row.Locale # ""
    /\ row.EncPubKey = (IF sub.EncPublicKey \in {<<>>, <<"null">>} THEN <<>>
                        ELSE <<"{jwk}">>)

\* What holds of the table after every call.
C19_TableState ==
    /\ subLog.err = "nil"
    /\ \A roomID \in Rooms, endpoint \in Endpoints :
         LET rows == RowsOf(roomID, endpoint)
             latest == subLog.latest[<<roomID, endpoint>>]
         IN /\ Len(rows) <= 1
            /\ latest = NoSubscription => Len(rows) = 0
            /\ latest # NoSubscription =>
                 Len(rows) = 1 /\ RowCarries(rows[1], latest)

\* C19: after any sequence of Subscribe and Unsubscribe calls the table holds
\* at most one row per (roomId, endpoint): none when the pair was never
\* subscribed or was unsubscribed after its latest Subscribe, and otherwise
\* one row with the values of the latest Subscribe, the locale "en" when the
\* request had none; every call returns no error, and an Unsubscribe that
\* finds no row of its pair leaves the table as it is.
C19_SubscriptionTable ==
    /\ []C19_TableState
    /\ [][subSeq' = subSeq /\ Len(subs') = Len(subs) => subs' = subs]_<<subs, subSeq>>

\* A pair was subscribed twice, the second time without a locale, another
\* with a null key; one pair was unsubscribed twice and one that was never
\* subscribed was unsubscribed too.
C19_Witness ==
    /\ subLog.idle = {"repeated", "never"}
    /\ subSeq = 3
    /\ Len(subs) = 2
    /\ \E i \in 1..Len(subs) :
         /\ subs[i].ID = 3
         /\ subs[i].Locale = "en"
         /\ subLog.latest[<<subs[i].RoomID, subs[i].Endpoint>>].Locale = ""
    /\ \E i \in 1..Len(subs) :
         /\ subLog.latest[<<subs[i].RoomID, subs[i].Endpoint>>].EncPublicKey = <<"null">>
         /\ subs[i].EncPubKey = <<>>
    /\ \E pair \in subLog.ever : subLog.latest[pair] = NoSubscription

(***************************************************************************)
(* Component 5: the client's signaling connection (SignalingProvider, the  *)
(* ws and sse transports), from the mount of the provider to its unmount.  *)
(***************************************************************************)
VARIABLES
    sig           \* the refs and state of the connection effect, the transports made

sigVars == <<sig>>

\* Transports created in one run.
MaxTransports == 7

\* DEFAULT_TRANSPORTS
TransportOrder == <<"ws", "sse">>

ReconnectBaseMs == 500

ReconnectMaxMs == 5000

\* Transports created in a run in which the application joins rooms.
MaxJoinTransports == 3

\* Transports created in a run in which the application also leaves rooms.
MaxLeaveTransports == 2

\* Calls of joinRoom by the application in one run.
MaxJoinCalls == 2

\* Room ids the application joins.
JoinRoomIds == {"A", "B"}

\* The null of currentRoomIdRef and pendingJoinRef.
NoRoomId == ""

\* The opts argument of joinRoom: absent, or carrying a snapshotId.
JoinOpts == {"none", "snapshotId"}

NoOpen ==
    [id |-> 0, wasConnected |-> FALSE, pending |-> NoRoomId, opts |-> "none",
     rejoin |-> NoRoomId, bufferAfter |-> NoRoomId, calls |-> 0]

NoClose ==
    [handled |-> FALSE, kind |-> "", reason |-> "",
     onceBefore |-> [ws |-> FALSE, sse |-> FALSE],
     indexBefore |-> 0, toastsBefore |-> 0, indexAfter |-> 0, toastsAfter |-> 0,
     connectKind |-> "", timerAfter |-> FALSE]

\* createSignalingTransport(kind, handlers) before connect().
NewTransport(kind) ==
    [kind |-> kind, ready |-> "connecting", timer |-> FALSE, handle |-> FALSE,
     closeEvent |-> FALSE, post |-> FALSE]

\* transport.close(): the connect timer is cleared and the socket or event
\* source is closed; a WebSocket closed this way still fires its close event.
CloseTransport(ts, id) ==
    [ts EXCEPT ![id] =
        [@ EXCEPT !.timer = FALSE, !.handle = FALSE, !.ready = "closed",
                  !.closeEvent = IF ts[id].kind = "ws" /\ ts[id].handle
                                    /\ ts[id].ready # "closed"
                                 THEN TRUE ELSE @]]

RECURSIVE Pow2(_)
Pow2(n) == IF n = 0 THEN 1 ELSE 2 * Pow2(n - 1)

\* window.setTimeout of scheduleReconnect for attempt: the timer is counted
\* in timers until it fires or is cleared.
SetReconnectTimeout(s, attempt) ==
    LET backoff == IF ReconnectBaseMs * Pow2(attempt - 1) < ReconnectMaxMs
                   THEN ReconnectBaseMs * Pow2(attempt - 1) ELSE ReconnectMaxMs
    IN [s EXCEPT !.reconnectAttempts = attempt, !.reconnectTimeout = backoff,
                 !.timers = @ + 1]

\* A scheduleReconnect that does not look for a pending timer.
scheduleReconnectAnyway(s) ==
    IF s.closedByUnmount THEN s
    ELSE SetReconnectTimeout(s, s.reconnectAttempts + 1)

\* scheduleReconnect
scheduleReconnect(s) ==
    IF s.closedByUnmount THEN s
    ELSE IF s.reconnectTimeout # 0 THEN s
    ELSE SetReconnectTimeout(s, s.reconnectAttempts + 1)

\* A fallback rule that never leaves a transport.
shouldFallbackNever(s, kind, reason) == FALSE

\* shouldFallback
shouldFallback(s, kind, reason) ==
    IF Len(TransportOrder) <= 1 THEN FALSE
    ELSE IF s.transportIndex >= Len(TransportOrder) - 1 THEN FALSE
    ELSE IF reason = "unsupported" \/ reason = "timeout" THEN TRUE
    ELSE IF ~s.connectedOnce[kind] THEN TRUE
    ELSE FALSE

\* transportRef.current && transportRef.current.isOpen()
TransportIsOpen(s) ==
    s.transportRef # 0 /\ s.transports[s.transportRef].ready = "open"

\* sendMessage('join', payload): the message takes its rid from
\* currentRoomIdRef at the time of the send, and is dropped with a warning
\* when the transport is not open.
sendJoin(s, closure) ==
    IF TransportIsOpen(s)
    THEN [s EXCEPT !.joinsSent = Append(@, [rid |-> s.currentRoomId,
                                             opts |-> closure.opts,
                                             origin |-> closure.origin,
                                             conn |-> closure.conn,
                                             via |-> s.transportRef,
                                             afterLeave |-> s.left])]
    ELSE s

\* joinRoom(roomId, opts); origin names the caller.  With push support the
\* join waits for the subscription lookup or its 250 ms timer.
joinRoom(s, roomId, opts, origin) ==
    LET s1 == [s EXCEPT !.needsRejoin = FALSE, !.currentRoomId = roomId]
        closure == [opts |-> opts, origin |-> origin, conn |-> s.transportId]
    IN IF TransportIsOpen(s1)
       THEN IF s1.pushSupport
            THEN [s1 EXCEPT !.lookups = Append(@, closure)]
            ELSE sendJoin(s1, closure)
       ELSE [s1 EXCEPT !.pendingJoin = roomId, !.pendingJoinPayload = opts]

\* A callback that takes every transport for the current one.
SupersededNever(s, connectionId) == FALSE

\* connectionId !== transportIdRef.current, the first line of the onOpen,
\* onClose and onMessage handlers that connect() gives a transport.
Superseded(s, connectionId) == connectionId # s.transportId

RECURSIVE connect(_, _)
RECURSIVE onClose(_, _, _)

\* connect(index); index -1 stands for the call without an argument.  The
\* sse transport reports 'unsupported' from inside transport.connect().
connect(s, index) ==
    LET targetIndex == IF index = -1 THEN s.transportIndex ELSE index
    IN IF s.closedByUnmount \/ s.connecting THEN s
       ELSE IF targetIndex + 1 > Len(TransportOrder) THEN s
       ELSE LET targetKind == TransportOrder[targetIndex + 1]
                closed == IF s.transportRef # 0
                          THEN CloseTransport(s.transports, s.transportRef)
                          ELSE s.transports
                connectionId == s.transportId + 1
                supported == targetKind = "ws" \/ s.eventSource
                transport == IF supported
                             THEN [NewTransport(targetKind) EXCEPT
                                      !.timer = TRUE, !.handle = TRUE]
                             ELSE [NewTransport(targetKind) EXCEPT !.ready = "closed"]
                s1 == [s EXCEPT !.transportIndex = targetIndex,
                                !.connecting = TRUE,
                                !.transportId = connectionId,
                                !.transportRef = connectionId,
                                !.transports = Append(closed, transport)]
            IN IF supported THEN s1 ELSE onClose(s1, connectionId, "unsupported")

\* The onClose handler of transport connectionId; tryNextTransport is the
\* branch taken when shouldFallback holds.
onClose(s, connectionId, reason) ==
    IF Superseded(s, connectionId) THEN s
    ELSE IF s.closedByUnmount THEN [s EXCEPT !.connecting = FALSE]
    ELSE LET targetKind == s.transports[connectionId].kind
             s1 == [s EXCEPT !.connecting = FALSE, !.isConnected = FALSE,
                             !.activeTransport = "", !.transportRef = 0,
                             !.needsRejoin = (s.currentRoomId # NoRoomId)]
             nextIndex == s1.transportIndex + 1
             fallback == shouldFallback(s1, targetKind, reason)
                         /\ nextIndex < Len(TransportOrder)
             s2 == IF fallback
                   THEN connect([s1 EXCEPT !.toasts = @ + 1, !.reconnectAttempts = 0],
                                nextIndex)
                   ELSE scheduleReconnect(s1)
         IN [s2 EXCEPT !.lastClose =
                [handled |-> TRUE, kind |-> targetKind, reason |-> reason,
                 onceBefore |-> s.connectedOnce,
                 indexBefore |-> s.transportIndex, toastsBefore |-> s.toasts,
                 indexAfter |-> s2.transportIndex, toastsAfter |-> s2.toasts,
                 connectKind |-> IF s2.transportId # s.transportId
                                 THEN s2.transports[s2.transportId].kind ELSE "",
                 timerAfter |-> s2.reconnectTimeout # 0]]

\* The flush of the buffered join and the automatic rejoin in onOpen.
JoinOnOpen(s) ==
    IF s.pendingJoin # NoRoomId
    THEN [joinRoom(s, s.pendingJoin, s.pendingJoinPayload, "pending") EXCEPT
             !.pendingJoin = NoRoomId, !.pendingJoinPayload = "none"]
    ELSE IF s.needsRejoin /\ s.currentRoomId # NoRoomId
    THEN joinRoom([s EXCEPT !.needsRejoin = FALSE], s.currentRoomId, "none", "rejoin")
    ELSE s

\* An onOpen that leaves the buffered join in the buffer.
onOpenKeepsBuffer(s, connectionId) ==
    IF Superseded(s, connectionId) THEN s
    ELSE LET wasConnected == s.isConnected
             s1 == [s EXCEPT !.connecting = FALSE, !.reconnectAttempts = 0,
                             !.isConnected = TRUE,
                             !.activeTransport = s.transports[connectionId].kind,
                             !.connectedOnce[s.transports[connectionId].kind] = TRUE,
                             !.joinsSent = <<>>]
             s2 == IF wasConnected THEN s1
                   ELSE [JoinOnOpen(s1) EXCEPT !.pendingJoin = s.pendingJoin]
         IN [s2 EXCEPT !.lastOpen =
                [id |-> connectionId, wasConnected |-> wasConnected,
                 pending |-> s.pendingJoin, opts |-> s.pendingJoinPayload,
                 rejoin |-> IF s.needsRejoin THEN s.currentRoomId ELSE NoRoomId,
                 bufferAfter |-> s2.pendingJoin, calls |-> 0]]

\* The onOpen handler of transport connectionId.
onOpen(s, connectionId) ==
    IF Superseded(s, connectionId) THEN s
    ELSE LET wasConnected == s.isConnected
             s1 == [s EXCEPT !.connecting = FALSE, !.reconnectAttempts = 0,
                             !.isConnected = TRUE,
                             !.activeTransport = s.transports[connectionId].kind,
                             !.connectedOnce[s.transports[connectionId].kind] = TRUE,
                             !.joinsSent = <<>>]
             s2 == IF wasConnected THEN s1 ELSE JoinOnOpen(s1)
         IN [s2 EXCEPT !.lastOpen =
                [id |-> connectionId, wasConnected |-> wasConnected,
                 pending |-> s.pendingJoin, opts |-> s.pendingJoinPayload,
                 rejoin |-> IF s.needsRejoin THEN s.currentRoomId ELSE NoRoomId,
                 bufferAfter |-> s2.pendingJoin, calls |-> 0]]

\* The state the effect leaves after connect(0).
SigInit ==
    \E es \in BOOLEAN, ps \in BOOLEAN :
        sig = connect([transportIndex |-> 0,
                       connectedOnce |-> [ws |-> FALSE, sse |-> FALSE],
                       transportId |-> 0, transportRef |-> 0, connecting |-> FALSE,
                       reconnectAttempts |-> 0, reconnectTimeout |-> 0, timers |-> 0,
                       closedByUnmount |-> FALSE, isConnected |-> FALSE,
                       activeTransport |-> "", toasts |-> 0, transports |-> <<>>,
                       eventSource |-> es, lastClose |-> NoClose,
                       pushSupport |-> ps, currentRoomId |-> NoRoomId,
                       pendingJoin |-> NoRoomId, pendingJoinPayload |-> "none",
                       needsRejoin |-> FALSE, lookups |-> <<>>,
                       joinsSent |-> <<>>, joinCalls |-> 0, left |-> FALSE,
                       lastOpen |-> NoOpen], 0)

\* The provider's state with the fields a transport event sets on transport id.
WithTransport(id, fields) == [sig EXCEPT !.transports[id] = fields]

\* The step to the state a handler returns, within the bound of the run.
Step(next) == sig' = next /\ next.transportId <= MaxTransports

\* ws.onopen / es.onopen
TransportOpens ==
    \E id \in 1..Len(sig.transports) :
        LET t == sig.transports[id] IN
        /\ t.ready = "connecting" /\ t.handle
        /\ Step(onOpen(WithTransport(id, [t EXCEPT !.ready = "open", !.timer = FALSE]),
                    id))

\* The 2000 ms connect timer of a transport that has not opened.
ConnectTimeout ==
    \E id \in 1..Len(sig.transports) :
        LET t == sig.transports[id] IN
        /\ t.timer /\ t.handle /\ t.ready # "open"
        /\ Step(onClose(WithTransport(id, [t EXCEPT !.ready = "closed", !.timer = FALSE,
                               !.closeEvent = (t.kind = "ws" /\ t.ready # "closed"),
                               !.handle = (t.kind = "ws")]),
                    id, "timeout"))

\* ws.onerror (a close event follows), or es.onerror with the source closed.
TransportError ==
    \E id \in 1..Len(sig.transports) :
        LET t == sig.transports[id] IN
        /\ t.handle /\ t.ready # "closed"
        /\ Step(onClose(WithTransport(id, [t EXCEPT !.ready = "closed", !.timer = FALSE,
                               !.closeEvent = (t.kind = "ws")]),
                    id, IF t.kind = "ws" THEN "error" ELSE "close"))

\* ws.onclose
WsCloseEvent ==
    \E id \in 1..Len(sig.transports) :
        LET t == sig.transports[id] IN
        /\ t.kind = "ws"
        /\ t.closeEvent \/ (t.handle /\ t.ready # "closed")
        /\ Step(onClose(WithTransport(id, [t EXCEPT !.ready = "closed", !.timer = FALSE,
                               !.closeEvent = FALSE]),
                    id, "close"))

\* The POST of an sse transport is answered 410.
SseGone ==
    \E id \in 1..Len(sig.transports) :
        LET t == sig.transports[id] IN
        /\ t.kind = "sse" /\ t.ready = "open"
        /\ Step(onClose(WithTransport(id, [t EXCEPT !.ready = "closed", !.handle = FALSE]),
                    id, "gone"))

\* The reconnect timer fires.
ReconnectTimer ==
    /\ sig.reconnectTimeout # 0
    /\ Step(connect([sig EXCEPT !.reconnectTimeout = 0, !.timers = @ - 1], -1))

\* The application calls joinRoom(roomId, opts).
JoinRoomCalled ==
    \E roomId \in JoinRoomIds, opts \in JoinOpts :
        /\ sig.joinCalls < MaxJoinCalls
        /\ ~sig.closedByUnmount
        /\ sig' = [joinRoom(sig, roomId, opts, "call") EXCEPT
                      !.joinCalls = @ + 1, !.lastOpen.calls = @ + 1,
                      !.left = FALSE]

\* The subscription lookup of a waiting join settles, or its 250 ms timer
\* fires first: sendJoin runs once for that call of joinRoom.
JoinLookupEnds ==
    \E i \in 1..Len(sig.lookups) :
        sig' = sendJoin([sig EXCEPT !.lookups =
                            SubSeq(@, 1, i - 1) \o SubSeq(@, i + 1, Len(@))],
                        sig.lookups[i])

\* The application calls leaveRoom(): 'leave' is sent if the transport is
\* open, and the room refs are cleared.
LeaveRoom ==
    /\ ~sig.closedByUnmount
    /\ ~sig.left
    /\ sig.currentRoomId # NoRoomId
    /\ sig' = [sig EXCEPT !.currentRoomId = NoRoomId, !.needsRejoin = FALSE,
                          !.left = TRUE]

\* A 'room_ended' message arrives on the current transport.
RoomEnded ==
    /\ ~sig.closedByUnmount
    /\ ~sig.left
    /\ TransportIsOpen(sig)
    /\ sig.currentRoomId # NoRoomId
    /\ sig' = [sig EXCEPT !.currentRoomId = NoRoomId, !.needsRejoin = FALSE,
                          !.left = TRUE]

\* The cleanup of the effect.
Unmount ==
    /\ ~sig.closedByUnmount
    /\ sig' = [sig EXCEPT !.closedByUnmount = TRUE, !.reconnectTimeout = 0,
                          !.timers = IF sig.reconnectTimeout # 0 THEN @ - 1 ELSE @,
                          !.transports = IF sig.transportRef # 0
                                         THEN CloseTransport(@, sig.transportRef)
                                         ELSE @]

(***************************************************************************)
(* Messages received, and the callbacks of transports that connect() has   *)
(* replaced.                                                               *)
(***************************************************************************)
VARIABLES
    inbox,        \* roomState and lastMessage, with the transport that delivered it
    staleLog      \* the handlers that a replaced transport has called

inVars == <<inbox>>

staleVars == <<staleLog>>

\* Transports created in a run in which replaced transports call back.
MaxStaleTransports == 3

\* The types of the messages of the server that change room state.
IncomingTypes == {"joined", "room_state", "room_ended"}

NoInbox == [roomState |-> "null", lastMessage |-> "", via |-> 0, current |-> 0]

InboxInit == inbox = NoInbox /\ staleLog = {}

\* handleIncomingMessage(msg) on the refs: room_ended clears the room.
handleIncomingMessage(s, type) ==
    IF type = "room_ended"
    THEN [s EXCEPT !.currentRoomId = NoRoomId, !.needsRejoin = FALSE,
                   !.left = (s.currentRoomId # NoRoomId) \/ @]
    ELSE s

\* handleIncomingMessage(msg) on roomState and lastMessage; the listeners
\* are called with what lastMessage is set to.
Delivered(s, connectionId, type) ==
    [roomState |-> IF type = "room_ended" THEN "null" ELSE type,
     lastMessage |-> type, via |-> connectionId, current |-> s.transportId]

\* Some transport older than the current one changes in this step.
StaleCallback ==
    \E id \in 1..Len(sig.transports) :
        id < sig.transportId /\ sig'.transports[id] # sig.transports[id]

\* The log of the handlers called by replaced transports.
Noting(handler) ==
    staleLog' = IF StaleCallback THEN staleLog \cup {handler} ELSE staleLog

\* ws.onmessage / es.onmessage: the onMessage handler of transport id.
TransportMessage ==
    \E id \in 1..Len(sig.transports), type \in IncomingTypes :
        /\ sig.transports[id].ready = "open"
        /\ ~sig.closedByUnmount
        /\ IF Superseded(sig, id)
           THEN /\ UNCHANGED <<sig, inbox>>
                /\ staleLog' = staleLog \cup {"onMessage"}
           ELSE /\ sig' = handleIncomingMessage(sig, type)
                /\ inbox' = Delivered(sig, id, type)
                /\ UNCHANGED staleLog

\* The application sends a message over the open sse transport: a POST is
\* in flight.
SsePost ==
    /\ TransportIsOpen(sig)
    /\ sig.transports[sig.transportRef].kind = "sse"
    /\ ~sig.transports[sig.transportRef].post
    /\ sig' = [sig EXCEPT !.transports[sig.transportRef].post = TRUE]

\* The POST of an sse transport is answered 410 after the transport was
\* closed.
SseGoneLate ==
    \E id \in 1..Len(sig.transports) :
        LET t == sig.transports[id] IN
        /\ t.kind = "sse" /\ t.post /\ t.ready = "closed"
        /\ Step(onClose(WithTransport(id, [t EXCEPT !.post = FALSE, !.handle = FALSE]),
                    id, "gone"))

(***************************************************************************)
(* Properties of the signaling connection.                                 *)
(***************************************************************************)
\* What holds after every onClose the provider acted on, and of the notices.
C9_FallbackState ==
    LET c == sig.lastClose IN
    /\ sig.toasts <= 1
    /\ c.handled /\ c.kind = "ws" /\ (c.reason = "timeout" \/ ~c.onceBefore.ws) =>
          /\ c.connectKind = "sse"
          /\ c.indexAfter = 1
          /\ c.toastsBefore = 0 /\ c.toastsAfter = 1
    /\ c.handled /\ c.kind = "sse" /\ c.onceBefore.sse =>
          /\ c.indexAfter = 1
          /\ c.toastsAfter = c.toastsBefore
          /\ c.connectKind = ""
          /\ c.timerAfter
    /\ sig.transportIndex = 1 => sig.transports[sig.transportId].kind = "sse"

\* C9: with the order [ws, sse], a ws attempt that times out, or that fails
\* before ws has ever opened, makes the client connect on sse and show the
\* one fallback notice; once sse has opened, a failure on sse schedules a
\* reconnect on sse with no notice; the transport index never decreases.
C9_TransportFallback ==
    /\ []C9_FallbackState
    /\ [][sig'.transportIndex >= sig.transportIndex]_sigVars

\* A ws that had opened before timed out on a reconnect and the client fell
\* back; later the open sse failed and its reconnect is on sse.
C9_Witness ==
    /\ sig.connectedOnce.ws /\ sig.connectedOnce.sse
    /\ sig.toasts = 1
    /\ sig.lastClose.handled /\ sig.lastClose.kind = "sse"
    /\ sig.lastClose.timerAfter
    /\ sig.reconnectTimeout = 0
    /\ sig.transports[sig.transportId].kind = "sse"
    /\ \E id \in 1..Len(sig.transports) :
         sig.transports[id].kind = "sse" /\ id < sig.transportId

\* The joins sent since the last open that the open itself asked for.
JoinsOfLastOpen ==
    SelectSeq(sig.joinsSent,
              LAMBDA m : m.origin # "call" /\ m.conn = sig.lastOpen.id)

\* A join the last open asked for still waits for its subscription lookup.
JoinOfLastOpenWaits ==
    \E i \in 1..Len(sig.lookups) :
        sig.lookups[i].origin # "call" /\ sig.lookups[i].conn = sig.lastOpen.id

\* The transport of the last open is the current one and is open.
LastOpenStillOpen ==
    /\ sig.lastOpen.id # 0
    /\ sig.transportRef = sig.lastOpen.id
    /\ sig.transports[sig.lastOpen.id].ready = "open"

\* The transport of the last open has been closed or replaced.
LastOpenOver == sig.lastOpen.id # 0 /\ ~LastOpenStillOpen

\* The open found a buffered join, or a room to rejoin.
OpenHadJoin ==
    /\ sig.lastOpen.id # 0
    /\ sig.lastOpen.pending # NoRoomId \/ sig.lastOpen.rejoin # NoRoomId

\* C17: when the transport opens, a join buffered while it was not open is
\* taken out of the buffer, and otherwise a room that was active when the
\* connection dropped is rejoined; with both, only the buffered join is
\* acted on.  The one join is sent at once without push support, and with
\* push support when the subscription lookup or its 250 ms timer ends,
\* provided the transport is still open then; it is never sent twice.
C17_JoinOnOpen ==
    LET o == sig.lastOpen
        sent == JoinsOfLastOpen
    IN /\ o.id # 0 => ~o.wasConnected
       /\ o.pending # NoRoomId => o.bufferAfter = NoRoomId
       /\ Len(sent) <= 1
       /\ \A i \in 1..Len(sent) :
            /\ OpenHadJoin
            /\ sent[i].origin = (IF o.pending # NoRoomId THEN "pending" ELSE "rejoin")
            /\ sent[i].opts = (IF o.pending # NoRoomId THEN o.opts ELSE "none")
            /\ sent[i].via = o.id
            /\ o.calls = 0 =>
                 sent[i].rid = (IF o.pending # NoRoomId THEN o.pending ELSE o.rejoin)
       /\ OpenHadJoin /\ ~JoinOfLastOpenWaits /\ LastOpenStillOpen => Len(sent) = 1
       /\ OpenHadJoin /\ ~sig.pushSupport => Len(sent) = 1

\* C17 as stated: an open that found a buffered join, or a room to rejoin,
\* has sent exactly one join for it by the time that connection is over.
C17_JoinSentOnOpen ==
    OpenHadJoin /\ LastOpenOver /\ ~JoinOfLastOpenWaits => Len(JoinsOfLastOpen) = 1

\* A join was buffered while a room was marked for rejoin, the transport
\* opened, and the one join sent on it is the buffered one.
C17_Witness ==
    /\ sig.lastOpen.pending # NoRoomId /\ sig.lastOpen.rejoin # NoRoomId
    /\ sig.lastOpen.pending = sig.lastOpen.rejoin
    /\ sig.lastOpen.opts = "snapshotId"
    /\ sig.pushSupport
    /\ Len(JoinsOfLastOpen) = 1
    /\ JoinsOfLastOpen[1].origin = "pending"
    /\ JoinsOfLastOpen[1].rid = sig.lastOpen.pending
    /\ sig.pendingJoin = NoRoomId

\* The transport closed while the buffered join waited for the lookup, and
\* the join was dropped.
C17_JoinDropped ==
    /\ sig.lastOpen.pending # NoRoomId
    /\ LastOpenOver /\ ~JoinOfLastOpenWaits
    /\ Len(JoinsOfLastOpen) = 0

\* C26: after leaveRoom or a received room_ended the client sends no join
\* message, with or without a room id, until the application calls
\* joinRoom again, also when a join was buffered or waited for the
\* push-subscription lookup at the time of the leave, and across reconnects.
C26_NoJoinAfterLeave ==
    \A i \in 1..Len(sig.joinsSent) : ~sig.joinsSent[i].afterLeave

(***************************************************************************)
(* Component 6: the client's WebRTC session (WebRTCProvider, App.tsx) of   *)
(* one participant, "me", in a room with one other participant, "peer".    *)
(* Negotiation messages that arrive before the ICE configuration is loaded *)
(* are buffered and handled afterwards, so they are taken to arrive then.  *)
(***************************************************************************)
VARIABLES
    rtc           \* the state and refs of the provider, its peer connection,
                  \* the createOffer call in flight, the last message sent

rtcVars == <<rtc>>

RestartThrottleMs == 10000

OfferTimeoutMs == 8000

\* The steps of the clock: two seconds, or the whole throttle window.
ClockStepsMs == {2000, RestartThrottleMs}

\* 'ice' messages received in one run.
MaxCandidates == 2

NoRoom == [present |-> FALSE, hostCid |-> "", participants |-> 0]

NoPC == [exists |-> FALSE, signalingState |-> "closed", remoteDescription |-> FALSE]

NoTask == [stage |-> "idle", iceRestart |-> FALSE, pcClosed |-> FALSE]

\* The room state has two participants.
Paired(r) == r.roomState.present /\ r.roomState.participants = 2

\* The state after a change of the room state from old: dropped tells that
\* the room has gone from two participants to fewer or to none, and has not
\* been paired since.
AfterRoomChange(old, new) ==
    [new EXCEPT !.dropped = IF Paired(new) THEN FALSE
                            ELSE IF Paired(old) THEN TRUE ELSE @]

\* isHost
isHost(r) ==
    r.roomState.present /\ r.roomState.hostCid # "" /\ r.roomState.hostCid = r.clientId

\* sendMessage: sent when the signaling transport is open; the record keeps
\* whether the client was the host when it sent.
sendMessage(r, type) ==
    IF r.isConnected
    THEN [r EXCEPT !.lastSent = [type |-> type,
                                 host |-> r.roomState.present
                                          /\ r.roomState.hostCid = r.clientId]]
    ELSE r

\* scheduleIceRestart
scheduleIceRestart(r) ==
    IF ~r.pc.exists THEN r
    ELSE IF ~isHost(r) THEN r
    ELSE IF ~r.isConnected THEN [r EXCEPT !.pendingIceRestart = TRUE]
    ELSE IF r.iceRestartTimer THEN r
    ELSE IF r.sinceRestart < RestartThrottleMs THEN r
    ELSE [r EXCEPT !.iceRestartTimer = TRUE]

\* getOrCreatePC with the ICE configuration loaded.
getOrCreatePC(r) ==
    IF r.pc.exists THEN r
    ELSE [r EXCEPT !.pc = [exists |-> TRUE, signalingState |-> "stable",
                           remoteDescription |-> FALSE],
                   !.iceAdded = <<>>]

\* cleanupPC; a createOffer call in flight keeps the closed connection.
cleanupPC(r) ==
    [r EXCEPT !.pc = NoPC, !.iceAdded = <<>>, !.restartOwed = FALSE,
              !.iceRestartTimer = FALSE, !.offerTimeout = FALSE, !.offerTimeoutIn = 0,
              !.pendingIceRestart = FALSE,
              !.offerTask = IF r.pc.exists /\ @.stage # "idle"
                            THEN [@ EXCEPT !.pcClosed = TRUE] ELSE @]

\* The finally block of createOffer.
OfferFinally(r) ==
    LET r1 == [r EXCEPT !.isMakingOffer = FALSE, !.offerTask = NoTask]
    IN IF r1.pendingIceRestart
       THEN scheduleIceRestart([r1 EXCEPT !.pendingIceRestart = FALSE])
       ELSE r1

\* createOffer up to "await pc.createOffer(options)".
createOffer(r, iceRestart) ==
    IF r.isMakingOffer
    THEN IF iceRestart
         THEN [r EXCEPT !.pendingIceRestart = TRUE, !.restartOwed = TRUE] ELSE r
    ELSE IF ~r.rtcConfig THEN OfferFinally(r)
    ELSE LET r1 == getOrCreatePC(r)
         IN IF r1.pc.signalingState # "stable"
            THEN OfferFinally(IF iceRestart
                              THEN [r1 EXCEPT !.pendingIceRestart = TRUE,
                                              !.restartOwed = TRUE]
                              ELSE r1)
            ELSE [r1 EXCEPT !.isMakingOffer = TRUE,
                            !.offerTask = [stage |-> "createOffer",
                                           iceRestart |-> iceRestart,
                                           pcClosed |-> FALSE],
                            !.restartGap = IF iceRestart THEN r1.sinceRestartOffer ELSE @,
                            !.sinceRestartOffer = IF iceRestart THEN 0 ELSE @,
                            !.restartOwed = IF iceRestart THEN FALSE ELSE @]

\* pc.onsignalingstatechange, called after the state has changed.
onsignalingstatechange(r) ==
    IF r.pc.signalingState # "stable" THEN r
    ELSE LET r1 == [r EXCEPT !.offerTimeout = FALSE, !.offerTimeoutIn = 0]
         IN IF ~r1.pendingIceRestart THEN r1
            ELSE IF ~r1.isConnected \/ ~isHost(r1) THEN r1
            ELSE createOffer([r1 EXCEPT !.pendingIceRestart = FALSE,
                                        !.sinceRestart = 0], TRUE)

\* The effect on [roomState, clientId, remoteStream, rtcConfig].
RoomEffect(r) ==
    IF ~r.rtcConfig THEN r
    ELSE IF r.roomState.present /\ r.roomState.participants = 2
            /\ r.roomState.hostCid = r.clientId
    THEN LET r1 == getOrCreatePC(r)
         IN IF r1.pc.signalingState = "stable" /\ ~r1.pc.remoteDescription
            THEN createOffer(r1, FALSE) ELSE r1
    ELSE IF r.roomState.present /\ r.roomState.participants < 2
    THEN IF r.pc.exists THEN cleanupPC(r) ELSE r
    ELSE IF ~r.roomState.present
    THEN IF r.pc.exists THEN cleanupPC(r) ELSE r
    ELSE r

\* The effect on [isConnected].
ConnectedEffect(r) ==
    IF ~r.isConnected \/ ~r.pendingIceRestart THEN r
    ELSE IF ~isHost(r) THEN r
    ELSE IF ~r.pc.exists THEN r
    ELSE IF r.pc.signalingState = "stable"
    THEN createOffer([r EXCEPT !.pendingIceRestart = FALSE, !.sinceRestart = 0], TRUE)
    ELSE r

\* triggerIceRestart
triggerIceRestart(r) ==
    IF ~r.pc.exists THEN r
    ELSE IF ~isHost(r) THEN r
    ELSE IF ~r.isConnected THEN [r EXCEPT !.pendingIceRestart = TRUE]
    ELSE IF r.isMakingOffer
    THEN [r EXCEPT !.pendingIceRestart = TRUE, !.restartOwed = TRUE]
    ELSE createOffer([r EXCEPT !.sinceRestart = 0, !.pendingIceRestart = FALSE], TRUE)

RtcInit ==
    rtc = [roomState |-> NoRoom, clientId |-> "", isConnected |-> FALSE,
           rtcConfig |-> FALSE, pc |-> NoPC, isMakingOffer |-> FALSE,
           pendingIceRestart |-> FALSE, iceRestartTimer |-> FALSE,
           offerTimeout |-> FALSE, offerTimeoutIn |-> 0,
           sinceRestart |-> RestartThrottleMs,
           sinceRestartOffer |-> RestartThrottleMs, restartGap |-> RestartThrottleMs,
           restartOwed |-> FALSE,
           offerTask |-> NoTask, lastSent |-> [type |-> "", host |-> FALSE],
           iceBuffer |-> <<>>, iceAdded |-> <<>>, iceSeq |-> 0, dropped |-> FALSE]

\* The signaling transport opens: setIsConnected(true), then the effect on
\* [isConnected].
SignalingConnects ==
    /\ ~rtc.isConnected
    /\ rtc' = ConnectedEffect([rtc EXCEPT !.isConnected = TRUE])

\* The signaling transport closes: setIsConnected(false).
SignalingDisconnects ==
    /\ rtc.isConnected
    /\ rtc' = [rtc EXCEPT !.isConnected = FALSE, !.restartOwed = FALSE]

\* A 'joined' or 'room_state' message: setClientId, setRoomState, then the
\* effect on the room state.
RoomStateMessage ==
    /\ rtc.isConnected
    /\ \E joined \in BOOLEAN, host \in {"me", "peer"}, n \in {1, 2} :
          /\ rtc.clientId = "" => joined
          /\ rtc' = AfterRoomChange(rtc, RoomEffect([rtc EXCEPT
                        !.clientId = IF joined THEN "me" ELSE @,
                        !.roomState = [present |-> TRUE, hostCid |-> host,
                                       participants |-> n],
                        !.restartOwed = @ /\ host = "me"]))

\* 'room_ended', or leaveRoom: setRoomState(null), then the effect.
RoomCleared ==
    /\ rtc.roomState.present
    /\ rtc' = AfterRoomChange(rtc, RoomEffect([rtc EXCEPT !.roomState = NoRoom,
                                                          !.restartOwed = FALSE]))

\* fetchIceServers ends: setRtcConfig, then the effect on the room state.
RtcConfigLoaded ==
    /\ rtc.clientId # ""
    /\ ~rtc.rtcConfig
    /\ rtc' = RoomEffect([rtc EXCEPT !.rtcConfig = TRUE])

\* "await pc.createOffer(options)" ends.
OfferCreated ==
    /\ rtc.offerTask.stage = "createOffer"
    /\ rtc' = IF rtc.offerTask.pcClosed
              THEN OfferFinally(rtc)
              ELSE [rtc EXCEPT !.offerTask.stage = "setLocalDescription"]

\* "await pc.setLocalDescription(...)" ends, and createOffer runs to its end:
\* the offer is sent, the offer timeout set, the finally block run.
OfferLocalDescriptionSet ==
    /\ rtc.offerTask.stage = "setLocalDescription"
    /\ rtc' = IF rtc.offerTask.pcClosed \/ rtc.pc.signalingState # "stable"
              THEN OfferFinally(rtc)
              ELSE LET r1 == onsignalingstatechange(
                                 [rtc EXCEPT !.pc.signalingState = "have-local-offer"])
                       r2 == sendMessage(r1, "offer")
                   IN OfferFinally([r2 EXCEPT !.offerTimeout = TRUE,
                                              !.offerTimeoutIn = OfferTimeoutMs])

\* The offer timeout fires, 8000 ms or more after it was set: rollback, then
\* an ICE restart is scheduled.
OfferTimeoutFires ==
    /\ rtc.offerTimeout /\ rtc.offerTimeoutIn = 0
    /\ LET r0 == [rtc EXCEPT !.offerTimeout = FALSE, !.offerTimeoutIn = 0]
       IN rtc' = IF r0.pc.exists /\ r0.pc.signalingState = "have-local-offer"
                 THEN scheduleIceRestart(onsignalingstatechange(
                          [r0 EXCEPT !.pendingIceRestart = TRUE,
                                     !.pc.signalingState = "stable"]))
                 ELSE r0

\* handleOffer for an 'offer' of the peer; a browser either rolls the local
\* offer back or rejects the remote one.  The buffered candidates are added
\* after the remote description is set.
PeerOffer ==
    /\ rtc.isConnected /\ rtc.rtcConfig
    /\ \E rollback \in BOOLEAN :
          LET r1 == getOrCreatePC(rtc)
              r2 == IF r1.pc.signalingState = "have-local-offer" /\ rollback
                    THEN onsignalingstatechange([r1 EXCEPT !.pc.signalingState = "stable"])
                    ELSE r1
          IN rtc' = IF r2.pc.signalingState = "have-local-offer"
                    THEN r2
                    ELSE sendMessage(
                           onsignalingstatechange(
                             [r2 EXCEPT !.pc.signalingState = "stable",
                                        !.pc.remoteDescription = TRUE,
                                        !.offerTimeout = FALSE, !.offerTimeoutIn = 0,
                                        !.iceAdded = @ \o r2.iceBuffer,
                                        !.iceBuffer = <<>>]),
                           "answer")

\* handleAnswer for an 'answer' of the peer.
PeerAnswer ==
    /\ rtc.isConnected /\ rtc.rtcConfig
    /\ LET r1 == getOrCreatePC(rtc)
       IN rtc' = IF r1.pc.signalingState = "have-local-offer"
                 THEN [onsignalingstatechange(
                          [r1 EXCEPT !.pc.signalingState = "stable",
                                     !.pc.remoteDescription = TRUE])
                       EXCEPT !.offerTimeout = FALSE, !.offerTimeoutIn = 0]
                 ELSE r1

\* handleIce for an 'ice' message of the peer: the candidate is added to the
\* connection, or buffered while it has no remote description.
PeerIce ==
    /\ rtc.isConnected /\ rtc.rtcConfig
    /\ rtc.iceSeq < MaxCandidates
    /\ LET r1 == getOrCreatePC(rtc)
           candidate == rtc.iceSeq + 1
       IN rtc' = IF r1.pc.remoteDescription
                 THEN [r1 EXCEPT !.iceSeq = candidate, !.iceAdded = Append(@, candidate)]
                 ELSE [r1 EXCEPT !.iceSeq = candidate, !.iceBuffer = Append(@, candidate)]

\* pc.onicecandidate with a candidate.
IceCandidate ==
    /\ rtc.pc.exists
    /\ rtc' = sendMessage(rtc, "ice")

\* pc.oniceconnectionstatechange and pc.onconnectionstatechange.
ConnectionStateChange ==
    /\ rtc.pc.exists
    /\ \E state \in {"connected", "disconnected", "failed"} :
          rtc' = IF state = "connected"
                 THEN [rtc EXCEPT !.iceRestartTimer = FALSE,
                                  !.pendingIceRestart = FALSE,
                                  !.restartOwed = FALSE]
                 ELSE scheduleIceRestart(rtc)

\* pc.onnegotiationneeded
NegotiationNeeded ==
    /\ rtc.pc.exists
    /\ rtc' = IF rtc.roomState.present /\ rtc.roomState.participants >= 2
                 /\ rtc.roomState.hostCid = rtc.clientId
              THEN createOffer(rtc, FALSE)
              ELSE rtc

\* The window's 'online' event.
Online ==
    rtc' = scheduleIceRestart(rtc)

\* The timer of scheduleIceRestart fires.
IceRestartTimerFires ==
    /\ rtc.iceRestartTimer
    /\ rtc' = triggerIceRestart([rtc EXCEPT !.iceRestartTimer = FALSE])

\* The time since a moment that lay since ms back, d ms later; the model
\* does not count beyond the throttle window.
Later(since, d) ==
    IF since + d < RestartThrottleMs THEN since + d ELSE RestartThrottleMs

\* Time passes.
TimePasses ==
    /\ \/ rtc.sinceRestart < RestartThrottleMs
       \/ rtc.sinceRestartOffer < RestartThrottleMs
       \/ rtc.offerTimeout /\ rtc.offerTimeoutIn > 0
    /\ \E d \in ClockStepsMs :
          rtc' = [rtc EXCEPT !.sinceRestart = Later(@, d),
                             !.sinceRestartOffer = Later(@, d),
                             !.offerTimeoutIn = IF @ > d THEN @ - d ELSE 0]

(***************************************************************************)
(* Properties of the WebRTC session.                                       *)
(***************************************************************************)

\* C10: a client sends an 'offer' only while it is the room's host (the
\* hostCid of its room state equals its own cid); a client that is not the
\* host sends only 'answer' and 'ice' messages.
C10_OnlyHostSendsOffer ==
    rtc.lastSent.type = "offer" => rtc.lastSent.host

\* An offer sent by the host, and an answer sent by a client that is not.
C10_HostOffers ==
    rtc.lastSent.type = "offer" /\ rtc.lastSent.host

C10_NonHostAnswers ==
    rtc.lastSent.type = "answer" /\ ~rtc.lastSent.host

\* C16: once the peer connection has a remote description, set by an incoming
\* offer or an incoming answer, no received candidate is left in the queue:
\* the queued candidates have been added to it, in arrival order.
C16_IceQueueFlushed ==
    (rtc.pc.exists /\ rtc.pc.remoteDescription) =>
        /\ rtc.iceBuffer = <<>>
        /\ \A i, j \in 1..Len(rtc.iceAdded) : i < j => rtc.iceAdded[i] < rtc.iceAdded[j]

\* An incoming offer set the remote description and the two candidates
\* queued before it were added in arrival order.
C16_FlushedByOffer ==
    /\ rtc.pc.exists /\ rtc.pc.remoteDescription
    /\ rtc.lastSent.type = "answer"
    /\ rtc.iceBuffer = <<>> /\ rtc.iceAdded = <<1, 2>>

\* C24: across all trigger paths a client creates at most one ICE-restart
\* offer in any 10-second window: when it starts one, the one before it was
\* started at least 10000 ms earlier.
C24_RestartThrottle ==
    rtc.restartGap >= 10000

\* An ICE restart was put off while an offer was being made or the
\* signaling state was not stable, and since then the client has stayed
\* host, the signaling channel connected, ICE has not recovered and no
\* ICE-restart offer has been created; the connection is back in the stable
\* state with no offer being made.
RestartOwedAtStable ==
    /\ rtc.restartOwed
    /\ rtc.pc.exists /\ rtc.pc.signalingState = "stable"
    /\ ~rtc.isMakingOffer

\* C25: an ICE restart put off while an offer was being made or while the
\* signaling state was not stable is not lost: when the connection is back
\* in the stable state the restart is still pending or its timer is set, so
\* that an ICE-restart offer follows.
C25_PendingRestartKept ==
    RestartOwedAtStable => rtc.pendingIceRestart \/ rtc.iceRestartTimer

(***************************************************************************)
(* Component 7: forceVP8 (App.tsx) on a session description.  A            *)
(* description is its sequence of lines; an m= line is its media and its   *)
(* payload types, an a=rtpmap: line its payload type and encoding name.    *)
(***************************************************************************)
VARIABLES
    sdp           \* the description handed to forceVP8 and the one returned

sdpVars == <<sdp>>

MaxCodecs == 3

VideoPts == {96, 97, 98}

EncodingNames == {"VP8", "vp8", "H264"}

MLine(media, pts) == [t |-> "m", media |-> media, pts |-> pts, pt |-> 0, name |-> ""]

RtpmapLine(pt, name) == [t |-> "rtpmap", media |-> "", pts |-> <<>>, pt |-> pt, name |-> name]

SeqRange(q) == {q[i] : i \in 1..Len(q)}

\* One media section: its m= line, then one a=rtpmap: line per payload type.
Section(media, codecs) ==
    <<MLine(media, [i \in 1..Len(codecs) |-> codecs[i].pt])>>
    \o [i \in 1..Len(codecs) |-> RtpmapLine(codecs[i].pt, codecs[i].name)]

CodecLists(maxLen) ==
    {c \in UNION {[1..n -> [pt : VideoPts, name : EncodingNames]] : n \in 1..maxLen} :
        \A i, j \in 1..Len(c) : i # j => c[i].pt # c[j].pt}

\* The descriptions a peer connection returns: an audio section or none, a
\* video section or none, and a second video section or none.
Descriptions ==
    {a \o v1 \o v2 :
        a \in {<<>>, Section("audio", <<[pt |-> 111, name |-> "opus"]>>)},
        v1 \in {<<>>} \cup {Section("video", c) : c \in CodecLists(MaxCodecs)},
        v2 \in {<<>>} \cup {Section("video", c) : c \in CodecLists(1)}}

\* String.prototype.toUpperCase on an encoding name.
toUpperCase(name) == IF name = "vp8" THEN "VP8" ELSE name

\* Array.prototype.findIndex; 0 stands for -1.
FindVideoMLine(lines) ==
    IF \E i \in 1..Len(lines) : lines[i].t = "m" /\ lines[i].media = "video"
    THEN CHOOSE i \in 1..Len(lines) :
            /\ lines[i].t = "m" /\ lines[i].media = "video"
            /\ \A j \in 1..(i - 1) : ~(lines[j].t = "m" /\ lines[j].media = "video")
    ELSE 0

\* The payload types of the a=rtpmap: lines that name VP8, in line order.
Vp8PayloadTypes(lines) ==
    LET named == SelectSeq(lines, LAMBDA l : l.t = "rtpmap" /\ toUpperCase(l.name) = "VP8")
    IN [i \in 1..Len(named) |-> named[i].pt]

\* forceVP8
forceVP8(sdpLines) ==
    LET mLineIndex == FindVideoMLine(sdpLines)
    IN IF mLineIndex = 0 THEN sdpLines
       ELSE LET ptList == sdpLines[mLineIndex].pts
                vp8Pts == Vp8PayloadTypes(sdpLines)
                newPtList == vp8Pts \o SelectSeq(ptList, LAMBDA pt : pt \notin SeqRange(vp8Pts))
            IN IF Len(vp8Pts) = 0 THEN sdpLines
               ELSE [sdpLines EXCEPT ![mLineIndex].pts = newPtList]

NoDescription == <<>>

SdpInit == sdp = [in |-> NoDescription, out |-> NoDescription, applied |-> FALSE]

\* pc.createOffer() or pc.createAnswer() returns a description.
DescriptionCreated ==
    /\ sdp.in = NoDescription
    /\ \E d \in Descriptions \ {NoDescription} :
          sdp' = [in |-> d, out |-> d, applied |-> FALSE]

\* forceVP8(offer.sdp), forceVP8(answer.sdp)
ApplyForceVP8 ==
    /\ ~sdp.applied /\ sdp.in # NoDescription
    /\ sdp' = [sdp EXCEPT !.out = forceVP8(sdp.in), !.applied = TRUE]

(***************************************************************************)
(* Properties of forceVP8.                                                 *)
(***************************************************************************)

\* The payload-type list of the (first) video section, empty without one.
VideoPtList(lines) ==
    IF FindVideoMLine(lines) = 0 THEN <<>> ELSE lines[FindVideoMLine(lines)].pts

\* The lines of the (first) video section after its m= line.
VideoSectionLines(lines) ==
    LET m == FindVideoMLine(lines)
    IN {i \in (m + 1)..Len(lines) : m # 0 /\ \A j \in (m + 1)..i : lines[j].t # "m"}

\* The VP8 payload types of the video payload-type list.
Vp8Entries(lines) ==
    {pt \in SeqRange(VideoPtList(lines)) :
        \E i \in VideoSectionLines(lines) :
            lines[i].t = "rtpmap" /\ lines[i].pt = pt /\ toUpperCase(lines[i].name) = "VP8"}

\* list is every payload type of vp8 first, then the others of original in
\* their original order.
Vp8First(list, original, vp8) ==
    LET others == SelectSeq(original, LAMBDA pt : pt \notin vp8)
        k == Len(list) - Len(others)
    IN /\ k >= 1
       /\ {list[i] : i \in 1..k} = vp8
       /\ SubSeq(list, k + 1, Len(list)) = others
       /\ SeqRange(list) = SeqRange(original)

VARIABLES
    snap          \* the files under and beside the snapshot directory, the
                  \* clock, the ids generated, the last request and response

snapVars == <<snap>>

\* Successful uploads of one run.
MaxSnapUploads == 2

\* The last minute of one run.
MaxSnapClock == 15

RetentionMinutes == 10

MaxCiphertextBytes == 300 * 1024

StatusNotFound == 404

StatusRequestEntityTooLarge == 413

B64(n) == [enc |-> "base64", len |-> n]

EmptyString == [enc |-> "empty", len |-> 0]

NotBase64 == [enc |-> "invalid", len |-> 0]

\* "\n": base64 decoding skips line breaks, so it decodes to no bytes.
OnlyNewlines == [enc |-> "newlines", len |-> 0]

\* base64.StdEncoding.DecodeString
DecodeString(s) == [err |-> s.enc = "invalid", len |-> s.len]

\* "len(iv) != 12" replaced by a test for a non-empty IV.
InvalidIVIfEmpty(iv) == iv.err \/ iv.len = 0

\* "err != nil || len(iv) != 12"
InvalidIV(iv) == iv.err \/ iv.len # 12

GoodRecipient(id) == [ID |-> id, WrappedKey |-> B64(40 + id), WrappedKeyIV |-> B64(12)]

RecipientInputs ==
    {GoodRecipient(1), GoodRecipient(2),
     [GoodRecipient(1) EXCEPT !.WrappedKey = B64(50)],
     [GoodRecipient(1) EXCEPT !.ID = 0],
     [GoodRecipient(2) EXCEPT !.WrappedKey = EmptyString],
     [GoodRecipient(2) EXCEPT !.WrappedKey = OnlyNewlines],
     [GoodRecipient(2) EXCEPT !.WrappedKey = NotBase64],
     [GoodRecipient(2) EXCEPT !.WrappedKeyIV = B64(13)],
     [GoodRecipient(2) EXCEPT !.WrappedKeyIV = EmptyString]}

GoodUpload ==
    [Decoded |-> TRUE, Ciphertext |-> B64(1), SnapshotIV |-> B64(12),
     SnapshotSalt |-> B64(16), SnapshotEphemeralKey |-> B64(33),
     Recipients |-> <<GoodRecipient(1)>>]

\* The upload requests of a run: a body that is no JSON, the good request
\* with one field changed, and the good request with up to two recipients.
SnapshotUploadRequests ==
    {[GoodUpload EXCEPT !.Decoded = FALSE, !.Ciphertext = EmptyString,
                        !.SnapshotIV = EmptyString, !.SnapshotSalt = EmptyString,
                        !.SnapshotEphemeralKey = EmptyString, !.Recipients = <<>>]}
    \cup {[GoodUpload EXCEPT !.Ciphertext = c] :
            c \in {EmptyString, NotBase64, OnlyNewlines, B64(2),
                   B64(MaxCiphertextBytes), B64(MaxCiphertextBytes + 1)}}
    \cup {[GoodUpload EXCEPT !.SnapshotIV = c] :
            c \in {EmptyString, NotBase64, B64(11), B64(13)}}
    \cup {[GoodUpload EXCEPT !.SnapshotSalt = c] :
            c \in {EmptyString, NotBase64, B64(7), B64(8), B64(64), B64(65)}}
    \cup {[GoodUpload EXCEPT !.SnapshotEphemeralKey = c] :
            c \in {EmptyString, NotBase64, B64(31), B64(32)}}
    \cup {[GoodUpload EXCEPT !.Recipients = rs] :
            rs \in UNION {[1..n -> RecipientInputs] : n \in 0..2}}

\* The loop over req.Recipients: the entries that pass, under
\* strconv.Itoa(r.ID), a later entry replacing an earlier one of the same id.
SnapshotRecipients(list) ==
    LET passes(r) ==
            /\ ~(r.ID <= 0 \/ r.WrappedKey = EmptyString \/ r.WrappedKeyIV = EmptyString)
            /\ ~(DecodeString(r.WrappedKey).err \/ DecodeString(r.WrappedKey).len = 0)
            /\ ~InvalidIV(DecodeString(r.WrappedKeyIV))
        kept == {i \in 1..Len(list) : passes(list[i])}
        last(k) == CHOOSE i \in kept :
                      /\ Itoa(list[i].ID) = k
                      /\ \A j \in kept : Itoa(list[j].ID) = k => j <= i
    IN [k \in {Itoa(list[i].ID) : i \in kept} |->
           [WrappedKey |-> list[last(k)].WrappedKey,
            WrappedKeyIV |-> list[last(k)].WrappedKeyIV]]

\* The status handlePushSnapshot answers a POST with.
UploadStatus(req) ==
    IF ~req.Decoded THEN StatusBadRequest
    ELSE IF req.Ciphertext = EmptyString \/ req.SnapshotIV = EmptyString
            \/ req.SnapshotSalt = EmptyString \/ req.SnapshotEphemeralKey = EmptyString
    THEN StatusBadRequest
    ELSE IF DecodeString(req.Ciphertext).err THEN StatusBadRequest
    ELSE IF DecodeString(req.Ciphertext).len > MaxCiphertextBytes
    THEN StatusRequestEntityTooLarge
    ELSE IF InvalidIV(DecodeString(req.SnapshotIV)) THEN StatusBadRequest
    ELSE IF \/ DecodeString(req.SnapshotSalt).err
            \/ DecodeString(req.SnapshotSalt).len < 8
            \/ DecodeString(req.SnapshotSalt).len > 64
    THEN StatusBadRequest
    ELSE IF \/ DecodeString(req.SnapshotEphemeralKey).err
            \/ DecodeString(req.SnapshotEphemeralKey).len < 32
    THEN StatusBadRequest
    ELSE IF DOMAIN SnapshotRecipients(req.Recipients) = {} THEN StatusBadRequest
    ELSE StatusOK

\* filepath.Join(getSnapshotDir(), id + ".bin"), relative to the directory.
snapshotDataPath(id) == snapshotMetaPath(id) \o <<".bin">>

\* The name of the metadata file, relative to the directory.
SnapshotMetaFile(id) == snapshotMetaPath(id) \o <<".json">>

\* os.WriteFile
WriteFile(files, path, content, t) ==
    [f \in DOMAIN files \cup {path} |->
        IF f = path THEN [content |-> content, modTime |-> t] ELSE files[f]]

\* cleanupOldSnapshots: the entries of the directory whose modification time
\* is before the cutoff are removed.
cleanupOldSnapshots(files, t, maxAge) ==
    LET inDir(f) == \A i \in 1..Len(f) : f[i] # "/"
        cutoff == t - maxAge
        kept == {f \in DOMAIN files : ~(inDir(f) /\ files[f].modTime < cutoff)}
    IN [f \in kept |-> files[f]]

NoUpload == [GoodUpload EXCEPT !.Decoded = FALSE, !.Recipients = <<>>]

\* What a call of os.WriteFile can come to: the file written; no file, when
\* the open fails; a created file without its content, when the write fails.
WriteOutcomes == {"written", "none", "partial"}

Partial == [enc |-> "partial", len |-> 0]

\* os.WriteFile with its outcome.
WriteFileTo(files, path, content, t, outcome) ==
    IF outcome = "written" THEN WriteFile(files, path, content, t)
    ELSE IF outcome = "partial" THEN WriteFile(files, path, Partial, t)
    ELSE files

\* os.Remove
Remove(files, path) == [f \in DOMAIN files \ {path} |-> files[f]]

\* handlePushSnapshot, POST, of one of the requests, with the outcomes its
\* writes can have.  The two
\* files are written one after the other: later is 1 when the clock reaches
\* its next minute between the two writes.
handlePushSnapshotPost(requests, outcomes, ticks) ==
    /\ snap.seq < MaxSnapUploads
    /\ \E req \in requests :
       \E data \in IF UploadStatus(req) = StatusOK THEN outcomes ELSE {"written"} :
       \E metadata \in IF data = "written" THEN outcomes ELSE {"written"} :
       \E later \in IF data = "written" THEN ticks ELSE {0} :
         LET valid == UploadStatus(req) = StatusOK
             status == IF ~valid THEN UploadStatus(req)
                       ELSE IF data = "written" /\ metadata = "written" THEN StatusOK
                       ELSE StatusInternalServerError
             id == SnapshotID(snap.seq + 1)
             meta == [IV |-> req.SnapshotIV, Salt |-> req.SnapshotSalt,
                      EphemeralKey |-> req.SnapshotEphemeralKey,
                      Mime |-> "image/jpeg", CreatedAt |-> snap.clock + later,
                      Recipients |-> SnapshotRecipients(req.Recipients)]
             withData == WriteFileTo(snap.files, snapshotDataPath(id),
                                     req.Ciphertext, snap.clock, data)
             withMeta == WriteFileTo(withData, SnapshotMetaFile(id), meta,
                                     snap.clock + later, metadata)
             resp == [method |-> "POST", status |-> status, req |-> req,
                      id |-> IF status = StatusOK THEN id ELSE <<>>,
                      body |-> EmptyString, before |-> snap.files,
                      at |-> snap.clock + later]
         IN /\ snap.clock + later <= MaxSnapClock
            /\ ~valid => later = 0
            /\ snap' = IF ~valid THEN [snap EXCEPT !.resp = resp]
                       ELSE IF data # "written"
                       THEN [snap EXCEPT !.files = withData, !.seq = @ + 1,
                                         !.resp = [resp EXCEPT !.at = snap.clock]]
                       ELSE IF metadata # "written"
                       THEN [snap EXCEPT
                               !.files = Remove(withMeta, snapshotDataPath(id)),
                               !.clock = @ + later, !.seq = @ + 1, !.resp = resp]
                       ELSE [snap EXCEPT
                               !.files = cleanupOldSnapshots(withMeta, snap.clock + later,
                                                             RetentionMinutes),
                               !.clock = @ + later, !.seq = @ + 1, !.resp = resp]

\* http.StripPrefix(prefix, h): the path without the prefix.
StripPrefix(path, prefix) ==
    IF Len(path) >= Len(prefix) /\ SubSeq(path, 1, Len(prefix)) = prefix
    THEN SubSeq(path, Len(prefix) + 1, Len(path)) ELSE path

\* strings.TrimPrefix
TrimPrefix(s, prefix) ==
    IF Len(s) >= Len(prefix) /\ SubSeq(s, 1, Len(prefix)) = prefix
    THEN SubSeq(s, Len(prefix) + 1, Len(s)) ELSE s

\* The ids a fetch names: the ids of the run's snapshots, an id no snapshot
\* has, and "../x".
FetchIDs ==
    {SnapshotID(n) : n \in 1..MaxSnapUploads} \cup {<<"x">>, <<".", ".", "/", "x">>}

\* GET /api/push/snapshot/{id}: the route strips "/api/push/snapshot", the
\* handler trims "/api/push/snapshot/".
handlePushSnapshotGet ==
    \E requested \in FetchIDs :
       LET urlPath == <<"/api/push/snapshot", "/">> \o requested
           path == StripPrefix(urlPath, <<"/api/push/snapshot">>)
           id == TrimPrefix(path, <<"/api/push/snapshot", "/">>)
           found == isSafeSnapshotID(id) /\ snapshotDataPath(id) \in DOMAIN snap.files
       IN snap' = [snap EXCEPT !.resp =
                     [method |-> "GET",
                      status |-> IF found THEN StatusOK ELSE StatusNotFound,
                      req |-> NoUpload, id |-> requested,
                      body |-> IF found THEN snap.files[snapshotDataPath(id)].content
                               ELSE EmptyString,
                      before |-> snap.files, at |-> snap.clock]]

\* Five minutes pass.
SnapTimePasses ==
    /\ snap.clock + 5 <= MaxSnapClock
    /\ snap' = [snap EXCEPT !.clock = @ + 5]

\* A file of the raw name "../x.bin" lies beside the snapshot directory.
SnapInit ==
    snap = [files |-> [f \in {snapshotDataPath(<<".", ".", "/", "x">>)} |->
                          [content |-> B64(9), modTime |-> 0]],
            clock |-> 0, seq |-> 0,
            resp |-> [method |-> "", status |-> 0, req |-> NoUpload, id |-> <<>>,
                      body |-> EmptyString, before |-> <<>>, at |-> 0]]

(***************************************************************************)
(* Properties of the snapshot store.                                       *)
(***************************************************************************)

\* The field decodes to between lo and hi bytes.
DecodesTo(field, lo, hi) == field.enc # "invalid" /\ field.len >= lo /\ field.len <= hi

\* A fault of the four snapshot fields that the upload is rejected for.
FieldFault(req) ==
    \/ req.Ciphertext = EmptyString
    \/ (req.Ciphertext.enc # "invalid" /\ req.Ciphertext.len > 300 * 1024)
    \/ ~DecodesTo(req.SnapshotIV, 12, 12)
    \/ ~DecodesTo(req.SnapshotSalt, 8, 64)
    \/ ~DecodesTo(req.SnapshotEphemeralKey, 32, req.SnapshotEphemeralKey.len)

\* The entries of the request that are not dropped.
ValidRecipientEntries(req) ==
    {i \in 1..Len(req.Recipients) :
        /\ req.Recipients[i].ID > 0
        /\ DecodesTo(req.Recipients[i].WrappedKey, 1, req.Recipients[i].WrappedKey.len)
        /\ DecodesTo(req.Recipients[i].WrappedKeyIV, 12, 12)}

\* The response accepts the upload: the ciphertext and the metadata are
\* stored under a fresh SNAP- id, the metadata listing the valid recipients.
UploadStored(resp, files) ==
    /\ resp.status = 200
    /\ SubSeq(resp.id, 1, 5) = <<"S", "N", "A", "P", "-">>
    /\ snapshotDataPath(resp.id) \notin DOMAIN resp.before
    /\ SnapshotMetaFile(resp.id) \notin DOMAIN resp.before
    /\ files[snapshotDataPath(resp.id)].content = resp.req.Ciphertext
    /\ DOMAIN files[SnapshotMetaFile(resp.id)].content.Recipients =
          {Itoa(resp.req.Recipients[i].ID) : i \in ValidRecipientEntries(resp.req)}
    /\ \A i \in ValidRecipientEntries(resp.req) :
          \E j \in ValidRecipientEntries(resp.req) :
             /\ resp.req.Recipients[j].ID = resp.req.Recipients[i].ID
             /\ files[SnapshotMetaFile(resp.id)].content.Recipients[
                   Itoa(resp.req.Recipients[i].ID)].WrappedKey
                = resp.req.Recipients[j].WrappedKey

\* The response rejects the upload and no file was written.
UploadRejected(resp, files) ==
    /\ resp.status \in {400, 413}
    /\ resp.id = <<>>
    /\ files = resp.before

C12_Witness13ByteIV ==
    /\ snap.resp.method = "POST"
    /\ snap.resp.req.SnapshotIV = B64(13)
    /\ snap.resp.status = 400
    /\ snap.seq = 1

C13_FetchSnapshot ==
    snap.resp.method = "GET" =>
        /\ (WellFormedID(snap.resp.id)
            /\ snapshotDataPath(snap.resp.id) \in DOMAIN snap.resp.before) =>
              /\ snap.resp.status = 200
              /\ snap.resp.body = snap.resp.before[snapshotDataPath(snap.resp.id)].content
        /\ ~WellFormedID(snap.resp.id) => snap.resp.status = 404

\* A fetch of "../x", whose raw name is a file, was answered NotFound.
C13_UnsafeIdNotFound ==
    /\ snap.resp.method = "GET"
    /\ ~WellFormedID(snap.resp.id)
    /\ snapshotDataPath(snap.resp.id) \in DOMAIN snap.resp.before
    /\ snap.resp.status = 404

\* The files of the snapshot directory that are older than the retention.
OlderThanRetention(files, t) ==
    {f \in DOMAIN files : (\A i \in 1..Len(f) : f[i] # "/") /\ t - files[f].modTime > 10}

\* The sweep after a successful upload removes the files older than 10
\* minutes, and neither a sweep nor a fetch removes a younger file.
SweepRemovesOldOnly ==
    /\ (snap.resp.method = "POST" /\ snap.resp.status = 200) =>
          \A f \in DOMAIN snap.resp.before :
             IF f \in OlderThanRetention(snap.resp.before, snap.resp.at)
             THEN f \notin DOMAIN snap.files
             ELSE f \in DOMAIN snap.files /\ snap.files[f] = snap.resp.before[f]
    /\ (snap.resp.method = "GET" \/ (snap.resp.method = "POST" /\ snap.resp.status # 200)) =>
          snap.files = snap.resp.before

\* C14: a snapshot older than 10 minutes is deleted by the sweep after the
\* next successful upload and is NotFound afterwards; a younger snapshot is
\* deleted by no sweep and no fetch, and every fetch of it within the
\* retention window returns it.
C14_Retention ==
    /\ SweepRemovesOldOnly
    /\ (snap.resp.method = "GET" /\ WellFormedID(snap.resp.id)) =>
          IF snapshotDataPath(snap.resp.id) \in DOMAIN snap.resp.before
          THEN /\ snap.resp.status = 200
               /\ snap.resp.body = snap.resp.before[snapshotDataPath(snap.resp.id)].content
          ELSE snap.resp.status = 404

\* The sweep of a second upload removed the first snapshot, 15 minutes old.
C14_SweptOld ==
    /\ snap.resp.method = "POST" /\ snap.resp.status = 200
    /\ snapshotDataPath(SnapshotID(1)) \in DOMAIN snap.resp.before
    /\ snapshotDataPath(SnapshotID(1)) \notin DOMAIN snap.files
    /\ SnapshotMetaFile(SnapshotID(1)) \notin DOMAIN snap.files

(***************************************************************************)
(* Component 9: the recent-call list in the browser's localStorage         *)
(* (utils/callHistory.ts), written when a call ends.                       *)
(***************************************************************************)
VARIABLES
    hist          \* the item under STORAGE_KEY, and what has been saved so far

histVars == <<hist>>

\* Calls of saveCall in one run.
MaxSaves == 5

MAX_RECENT_CALLS == 3

CallRoomIds == {"r1", "r2", "r3", "r4"}

CallStartTimes == {1000, 2000}

CallDurations == {0, 42}

\* The calls CallRoom hands to saveCall: a room id, the start time, and a
\* duration of whole seconds that is never negative.
RecentCalls ==
    [roomId : CallRoomIds, startTime : CallStartTimes, duration : CallDurations]

\* localStorage.getItem of a key that was never set.
NoItem == [present |-> FALSE, text |-> <<>>]

\* JSON.stringify(history): the text of an array of objects, each object its
\* three members in the order in which saveCall's argument lists them.
stringify(history) ==
    [i \in 1..Len(history) |->
        <<<<"roomId", history[i].roomId>>,
          <<"startTime", history[i].startTime>>,
          <<"duration", history[i].duration>>>>]

\* The value of member name in the text of an object.
Member(object, name) ==
    LET i == CHOOSE i \in 1..Len(object) : object[i][1] = name
    IN object[i][2]

\* JSON.parse of a text that stringify wrote.
parse(text) ==
    [i \in 1..Len(text) |->
        [roomId |-> Member(text[i], "roomId"),
         startTime |-> Member(text[i], "startTime"),
         duration |-> Member(text[i], "duration")]]

\* A filter that keeps the earlier entry of the room.
filterKeepsAll(history, roomId) == history

\* history.filter(item => item.roomId !== call.roomId)
filter(history, roomId) == SelectSeq(history, LAMBDA item : item.roomId # roomId)

\* history.slice(0, n)
slice(history, n) == SubSeq(history, 1, IF Len(history) < n THEN Len(history) ELSE n)

\* saveCall(call): the new content of the item.
saveCall(item, call) ==
    LET history == IF item.present THEN parse(item.text) ELSE <<>>
        unshifted == <<call>> \o filter(history, call.roomId)
    IN [present |-> TRUE, text |-> stringify(slice(unshifted, MAX_RECENT_CALLS))]

\* getRecentCalls()
getRecentCalls(item) == IF item.present THEN parse(item.text) ELSE <<>>

HistInit ==
    hist = [item |-> NoItem, saves |-> 0,
            lastSave |-> [r \in CallRoomIds |-> 0],
            lastCall |-> [r \in CallRoomIds |-> CHOOSE c \in RecentCalls : TRUE]]

\* A call ends and CallRoom saves it.
SaveCall ==
    \E call \in RecentCalls :
        /\ hist.saves < MaxSaves
        /\ hist' = [item |-> saveCall(hist.item, call),
                    saves |-> hist.saves + 1,
                    lastSave |-> [hist.lastSave EXCEPT ![call.roomId] = hist.saves + 1],
                    lastCall |-> [hist.lastCall EXCEPT ![call.roomId] = call]]

(***************************************************************************)
(* Properties of the recent-call list.                                     *)
(***************************************************************************)
\* C18: after any sequence of saveCall operations the stored list has at
\* most 3 entries, no two of them for the same room, the call saved last
\* comes first, and the entries follow each other from the room saved most
\* recently to the one saved longest ago, each as it was last saved.
C18_RecentCalls ==
    LET list == getRecentCalls(hist.item) IN
    /\ Len(list) <= 3
    /\ \A i, j \in 1..Len(list) : i # j => list[i].roomId # list[j].roomId
    /\ hist.saves > 0 =>
          /\ Len(list) >= 1
          /\ hist.lastSave[list[1].roomId] = hist.saves
    /\ \A i, j \in 1..Len(list) :
          i < j => hist.lastSave[list[i].roomId] > hist.lastSave[list[j].roomId]
    /\ \A i \in 1..Len(list) :
          /\ hist.lastSave[list[i].roomId] > 0
          /\ list[i] = hist.lastCall[list[i].roomId]

\* Four rooms have been saved, one of them twice: the list holds the three
\* saved last and the room saved twice appears once.
C18_Witness ==
    LET list == getRecentCalls(hist.item) IN
    /\ hist.saves = 5
    /\ Len(list) = 3
    /\ \A r \in CallRoomIds : hist.lastSave[r] > 0
    /\ \E i \in 1..Len(list) : hist.lastSave[list[i].roomId] # hist.saves + 1 - i

(***************************************************************************)
(* Properties of the callbacks of replaced transports.                     *)
(***************************************************************************)
\* The provider's refs and state without the transports' own fields.
SignalingState(s) == [s EXCEPT !.transports = <<>>]

\* A step in which a transport older than the current one calls back
\* changes nothing but that transport.
StaleCallbackInert ==
    StaleCallback =>
        /\ SignalingState(sig') = SignalingState(sig)
        /\ Len(sig'.transports) = Len(sig.transports)
        /\ sig'.transports[sig.transportId] = sig.transports[sig.transportId]
        /\ inbox' = inbox

\* C27: once connect() has created a newer transport, a callback of an
\* earlier transport changes neither isConnected, activeTransport, the room
\* refs, the rejoin flag, the reconnect timer and attempts, the transport
\* index nor the notices, creates no transport, and delivers no message:
\* every message delivered came from the transport that was current.
C27_StaleCallbacks ==
    /\ [][StaleCallbackInert]_<<sig, inbox, staleLog>>
    /\ [](inbox.via = inbox.current)

\* The close event of a replaced ws and the late 410 of a replaced sse have
\* both reached the provider while it was connected and in a room, after a
\* message of the current transport was delivered.
C27_Witness ==
    /\ {"onClose close", "onClose gone"} \subseteq staleLog
    /\ sig.isConnected /\ sig.currentRoomId # NoRoomId
    /\ sig.transportId = MaxStaleTransports
    /\ inbox.lastMessage = "joined" /\ inbox.via = sig.transportId

(***************************************************************************)
(* Component 10: the local media of WebRTCProvider (App.tsx): the capture  *)
(* requests of startLocalMedia and flipCamera, and stopLocalMedia.         *)
(***************************************************************************)
VARIABLES
    media         \* mediaRequestIdRef, localStream, the last render, the captures made

mediaVars == <<media>>

\* Calls of getUserMedia in one run.
MaxCaptures == 3

\* Calls of startLocalMedia and stopLocalMedia in one run.
MaxMediaCalls == 4

\* localStream === null
NoStream == 0

MediaInit ==
    media = [requestId |-> 0, localStream |-> NoStream, rendered |-> NoStream,
             unmounted |-> FALSE, captures |-> <<>>, calls |-> 0]

\* The captures that are pending are marked with the call, a stop or a newer
\* start, that was invoked before they resolved.
Supersede(captures, by) ==
    [i \in 1..Len(captures) |->
        IF captures[i].state = "pending" /\ captures[i].superseded = "no"
        THEN [captures[i] EXCEPT !.superseded = by] ELSE captures[i]]

\* stream.getTracks().forEach(t => t.stop()) on the stream of capture n.
StopTracks(captures, n) ==
    IF n = NoStream THEN captures
    ELSE [captures EXCEPT ![n].tracks = "stopped"]

\* A committed render: the closures of startLocalMedia and flipCamera and
\* localStreamRef take the value of the localStream state.
Render ==
    /\ media.rendered # media.localStream
    /\ media' = [media EXCEPT !.rendered = media.localStream]

\* startLocalMedia(), up to the await of getUserMedia.
startLocalMedia ==
    /\ ~media.unmounted
    /\ media.calls < MaxMediaCalls
    /\ LET requestId == media.requestId + 1
           m1 == [media EXCEPT !.requestId = requestId, !.calls = @ + 1,
                               !.captures = Supersede(@, "start")]
       IN IF media.rendered # NoStream
          THEN media' = m1
          ELSE /\ Len(media.captures) < MaxCaptures
               /\ media' = [m1 EXCEPT !.captures =
                              Append(@, [kind |-> "start", id |-> requestId,
                                         state |-> "pending", tracks |-> "none",
                                         superseded |-> "no", surfaced |-> FALSE])]

\* getUserMedia of a startLocalMedia resolves: the stream is dropped with its
\* tracks when unmountedRef is set or mediaRequestIdRef is not the request's
\* id.
StartResolves ==
    \E n \in 1..Len(media.captures) :
        /\ media.captures[n].kind = "start"
        /\ media.captures[n].state = "pending"
        /\ IF ~media.unmounted /\ media.requestId = media.captures[n].id
           THEN media' = [media EXCEPT !.localStream = n,
                                       !.captures[n].state = "resolved",
                                       !.captures[n].tracks = "live",
                                       !.captures[n].surfaced = TRUE]
           ELSE media' = [media EXCEPT !.captures[n].state = "resolved",
                                       !.captures[n].tracks = "stopped"]

\* getUserMedia rejects: the catch of startLocalMedia or of flipCamera.
CaptureRejects ==
    \E n \in 1..Len(media.captures) :
        /\ media.captures[n].state = "pending"
        /\ media' = [media EXCEPT !.captures[n].state = "rejected"]

\* stopLocalMedia()
stopLocalMedia ==
    /\ media.calls < MaxMediaCalls
    /\ media' = [media EXCEPT
                   !.requestId = @ + 1, !.calls = @ + 1,
                   !.captures = StopTracks(Supersede(@, "stop"), media.rendered),
                   !.localStream = IF media.rendered # NoStream THEN NoStream ELSE @]

\* flipCamera(), up to the await of getUserMedia.
flipCamera ==
    /\ ~media.unmounted
    /\ media.rendered # NoStream
    /\ Len(media.captures) < MaxCaptures
    /\ media' = [media EXCEPT !.captures =
                    Append(@, [kind |-> "flip", id |-> 0,
                               state |-> "pending", tracks |-> "none",
                               superseded |-> "no", surfaced |-> FALSE])]

\* getUserMedia of a flipCamera resolves: the rebuilt stream with the new
\* video track becomes the local stream.
FlipResolves ==
    \E n \in 1..Len(media.captures) :
        /\ media.captures[n].kind = "flip"
        /\ media.captures[n].state = "pending"
        /\ media' = [media EXCEPT !.localStream = n,
                                  !.captures[n].state = "resolved",
                                  !.captures[n].tracks = "live",
                                  !.captures[n].surfaced = TRUE]

\* The cleanup of the provider: unmountedRef is set and stopLocalMedia runs.
MediaUnmount ==
    /\ ~media.unmounted
    /\ media' = [media EXCEPT
                   !.unmounted = TRUE, !.requestId = @ + 1,
                   !.captures = StopTracks(Supersede(@, "stop"), media.rendered),
                   !.localStream = IF media.rendered # NoStream THEN NoStream ELSE @]

(***************************************************************************)
(* Properties of the local media.                                          *)
(***************************************************************************)
\* C28: a capture request that was pending when stopLocalMedia or a newer
\* startLocalMedia was invoked never becomes the local stream, and once it
\* has resolved its tracks are stopped.
C28_StaleCaptureDiscarded ==
    \A n \in 1..Len(media.captures) :
        media.captures[n].superseded # "no" =>
            /\ ~media.captures[n].surfaced
            /\ media.captures[n].state = "resolved" =>
                   media.captures[n].tracks = "stopped"

\* The same of the requests of startLocalMedia alone.
StartCaptureDiscarded ==
    \A n \in 1..Len(media.captures) :
        media.captures[n].superseded # "no" /\ media.captures[n].kind = "start" =>
            /\ ~media.captures[n].surfaced
            /\ media.captures[n].state = "resolved" =>
                   media.captures[n].tracks = "stopped"

(***************************************************************************)
(* Properties of the cleanup of the peer connection.                       *)
(***************************************************************************)
\* What cleanupPC leaves: no peer connection, no ICE-restart timer, no offer
\* timeout, no pending restart.
CleanedUp(r) ==
    /\ ~r.pc.exists
    /\ ~r.iceRestartTimer
    /\ ~r.offerTimeout
    /\ ~r.pendingIceRestart

\* The step in which the room drops below two participants or is cleared
\* ends cleaned up.
CleanupAtDrop ==
    [][Paired(rtc) /\ ~Paired(rtc') => CleanedUp(rtc')]_rtc

\* C29: once the room has dropped below two participants or was cleared,
\* and until it is paired again, there is no peer connection, no ICE-restart
\* timer, no offer timeout and no pending restart.
C29_CleanedUntilPaired ==
    rtc.dropped => CleanedUp(rtc)

(***************************************************************************)
(* Component 11: the message list of one conversation in the client        *)
(* (MessagingProvider, MessagingContext.tsx), fed by the websocket of the  *)
(* messaging store and by the responses to loadMessages.                   *)
(***************************************************************************)
VARIABLES
    chatView      \* the stored messages, those on the websocket and in responses
                  \* under way, and messages[chatId] of the client

viewVars == <<chatView>>

\* Messages stored in the conversation in one run.
MaxStored == 3

\* Calls of loadMessages in one run.
MaxLoads == 2

\* The ids in a list of messages.
IdsOf(list) == {list[i] : i \in 1..Len(list)}

\* useState({}) of messages, an empty conversation and an open websocket.
ViewInit ==
    chatView = [stored |-> <<>>, socket |-> <<>>, responses |-> {},
                list |-> <<>>, delivered |-> {}, loads |-> 0]

\* addMessage on the server: the message is appended to the conversation
\* and then broadcast to the client's websocket.
StoreAndBroadcast ==
    /\ Len(chatView.stored) < MaxStored
    /\ LET msg == Len(chatView.stored) + 1
       IN chatView' = [chatView EXCEPT !.stored = Append(@, msg),
                                       !.socket = Append(@, msg)]

\* websocket.onmessage with a 'new_message': the message is appended to the
\* list.
NewMessageEvent ==
    /\ chatView.socket # <<>>
    /\ LET msg == Head(chatView.socket)
       IN chatView' = [chatView EXCEPT !.socket = Tail(@),
                                       !.list = Append(@, msg),
                                       !.delivered = @ \cup {msg}]

\* loadMessages(chatId): the server answers the GET with a copy of the
\* messages it holds at that moment.
LoadMessagesServed ==
    /\ chatView.loads < MaxLoads
    /\ chatView' = [chatView EXCEPT !.loads = @ + 1,
                                    !.responses = @ \cup {chatView.stored}]

\* The response reaches loadMessages: the list is replaced by its messages.
LoadMessagesResponse ==
    \E messages \in chatView.responses :
        chatView' = [chatView EXCEPT !.responses = @ \ {messages},
                                     !.list = messages,
                                     !.delivered = @ \cup IdsOf(messages)]

(***************************************************************************)
(* Properties of the client's message list.                                *)
(***************************************************************************)
\* C30: the list of the conversation holds each message id at most once and
\* holds every stored message that an event or a response has delivered to
\* the client.
C30_MessageList ==
    /\ \A i, j \in 1..Len(chatView.list) :
           chatView.list[i] = chatView.list[j] => i = j
    /\ chatView.delivered \subseteq IdsOf(chatView.list)

(***************************************************************************)
(* Properties of the files of a snapshot.                                  *)
(***************************************************************************)
\* C31: after every upload attempt and every sweep, the ciphertext file of a
\* snapshot id exists if and only if its metadata file exists.
C31_FilesPaired ==
    \A n \in 1..snap.seq :
        snapshotDataPath(SnapshotID(n)) \in DOMAIN snap.files
            <=> SnapshotMetaFile(SnapshotID(n)) \in DOMAIN snap.files

\* A failed metadata write has removed the ciphertext written before it.
FailedMetadataRemovesData ==
    (snap.resp.method = "POST" /\ snap.resp.status = StatusInternalServerError) =>
        \A n \in 1..snap.seq :
            snapshotDataPath(SnapshotID(n)) \in DOMAIN snap.files =>
                \/ snapshotDataPath(SnapshotID(n)) \in DOMAIN snap.resp.before
                \/ snap.files[snapshotDataPath(SnapshotID(n))].content = Partial

(***************************************************************************)
(* Properties of the ids of the subscriptions table.                       *)
(***************************************************************************)
\* The id of the row of (roomID, endpoint) in table, 0 when it has none.
IdOf(table, roomID, endpoint) ==
    IF \E i \in 1..Len(table) : table[i].RoomID = roomID /\ table[i].Endpoint = endpoint
    THEN (CHOOSE row \in {table[i] : i \in 1..Len(table)} :
              row.RoomID = roomID /\ row.Endpoint = endpoint).ID
    ELSE 0

\* No call changes the id of a pair that has a row before and after it.
IdStable ==
    \A roomID \in Rooms, endpoint \in Endpoints :
        (IdOf(subs, roomID, endpoint) # 0 /\ IdOf(subs', roomID, endpoint) # 0)
            => IdOf(subs', roomID, endpoint) = IdOf(subs, roomID, endpoint)

\* C32: the numeric id of a subscription is the same after a repeated
\* Subscribe of its (roomId, endpoint), so that an id taken from the list of
\* recipients still names that subscriber when a later join looks it up.
C32_IdStable == [][IdStable]_<<subs, subSeq>>

\* No call other than a Subscribe of a pair that has a row changes an id.
IdChangesOnlyOnResubscribe ==
    [][IdStable \/ (subSeq' = subSeq + 1 /\ Len(subs') = Len(subs))]_<<subs, subSeq>>

(***************************************************************************)
(* Properties of the delivery to the targets of one fan-out.               *)
(***************************************************************************)
\* Task i is attempted in this step.
Attempted(i) == i <= Len(pushTasks) /\ ~pushTasks[i].sent /\ pushTasks'[i].sent

\* What the attempt of task i does: the table loses the rows of the target's
\* (room, endpoint) on 404 and 410 and is kept otherwise, the payload is the
\* one of the target, and every other task is as it was.
AttemptEffect(i) ==
    LET task == pushTasks[i]
        resp == pushTasks'[i].resp
        gone == resp.err = "nil" /\ resp.StatusCode \in {404, 410}
    IN /\ gone => RowsOf(task.roomID, task.target.Endpoint)' = <<>>
       /\ gone => subs' = DeleteSubscription(subs, task.roomID, task.target.Endpoint)
       /\ ~gone => subs' = subs
       /\ Len(pushTasks') = Len(pushTasks)
       /\ \A j \in 1..Len(pushTasks) : j # i => pushTasks'[j] = pushTasks[j]
       /\ pushTasks'[i].payload =
             Payload(task.roomID, task.target, task.snapshotID, task.snapshotMeta)
       /\ pushTasks'[i].target = task.target

\* A task that was attempted is not attempted again, and a task that is
\* pending stays pending until its own attempt.
NoRetry ==
    \A j \in 1..Len(pushTasks) :
        /\ j <= Len(pushTasks')
        /\ pushTasks[j].sent => pushTasks'[j] = pushTasks[j]
        /\ ~pushTasks[j].sent => (pushTasks'[j] = pushTasks[j] \/ Attempted(j))

\* C33: a 404 or 410 answer for a target deletes that target's subscription;
\* any other answer and a transport error keep it, and nothing is retried;
\* the outcome for one target leaves the attempts of the other targets of the
\* fan-out as they were.
C33_SendOutcome ==
    [][/\ NoRetry
       /\ \A i \in 1..Len(pushTasks) : Attempted(i) => AttemptEffect(i)]_<<subs, pushTasks>>

\* Two targets of one fan-out were attempted: one was answered 404 and its
\* subscription is gone, the other one's attempt failed in transport and its
\* subscription is still there.
C33_Witness ==
    \E i, j \in 1..Len(pushTasks) :
        /\ pushTasks[i].call = pushTasks[j].call
        /\ pushTasks[i].sent /\ pushTasks[j].sent
        /\ pushTasks[i].resp = Response(404)
        /\ pushTasks[j].resp = SendError
        /\ RowsOf(pushTasks[i].roomID, pushTasks[i].target.Endpoint) = <<>>
        /\ RowsOf(pushTasks[j].roomID, pushTasks[j].target.Endpoint) = <<pushTasks[j].target>>

(***************************************************************************)
(* Component 12: the Join button of the call room (handleJoin of           *)
(* CallRoom.tsx with startLocalMedia of App.tsx) on the pre-join screen,   *)
(* with the signaling connection open.                                     *)
(***************************************************************************)
VARIABLES
    prejoin       \* localStream, hasJoined, the handleJoin calls, the joins sent, the toasts

joinVars == <<prejoin>>

\* Presses of the Join button in one run.
MaxPresses == 3

PrejoinInit ==
    prejoin = [localStream |-> FALSE, hasJoined |-> FALSE, presses |-> <<>>,
               joins |-> <<>>, toasts |-> <<>>]

\* handleJoin up to the await of startLocalMedia, and startLocalMedia up to
\* its first return or await: it returns at once when localStream is set,
\* shows toast_media_blocked and returns when there is no getUserMedia, and
\* awaits getUserMedia otherwise.
handleJoin ==
    /\ ~prejoin.hasJoined
    /\ Len(prejoin.presses) < MaxPresses
    /\ \E mediaDevices \in BOOLEAN :
         LET n == Len(prejoin.presses) + 1
             got == IF prejoin.localStream THEN "held"
                      ELSE IF ~mediaDevices THEN "blocked"
                      ELSE "pending"
         IN prejoin' = [prejoin EXCEPT
               !.presses = Append(@, [media |-> got, stream |-> FALSE,
                                      step |-> IF got = "pending" THEN "getUserMedia"
                                               ELSE "returned"]),
               !.toasts = IF got = "blocked"
                          THEN Append(@, [press |-> n, kind |-> "error",
                                          text |-> "toast_media_blocked"])
                          ELSE @]

\* getUserMedia resolves: setLocalStream(stream), and startLocalMedia returns
\* without a value.
GetUserMediaResolves ==
    \E n \in 1..Len(prejoin.presses) :
        /\ prejoin.presses[n].step = "getUserMedia"
        /\ prejoin' = [prejoin EXCEPT !.localStream = TRUE,
                                      !.presses[n].media = "acquired",
                                      !.presses[n].step = "returned"]

\* getUserMedia rejects: the catch of startLocalMedia logs the error and
\* startLocalMedia returns without a value.
GetUserMediaRejects ==
    \E n \in 1..Len(prejoin.presses) :
        /\ prejoin.presses[n].step = "getUserMedia"
        /\ prejoin' = [prejoin EXCEPT !.presses[n].media = "rejected",
                                      !.presses[n].step = "returned"]

\* handleJoin after the await: no snapshot is built for the value
\* startLocalMedia returned, and the join is scheduled 50 ms ahead.
JoinScheduled ==
    \E n \in 1..Len(prejoin.presses) :
        /\ prejoin.presses[n].step = "returned"
        /\ prejoin' = [prejoin EXCEPT !.presses[n].step = "timer"]

\* The timer of handleJoin: joinRoom(roomId) and setHasJoined(true).
JoinTimer ==
    \E n \in 1..Len(prejoin.presses) :
        /\ prejoin.presses[n].step = "timer"
        /\ prejoin' = [prejoin EXCEPT !.presses[n].step = "joined",
                                      !.joins = Append(@, n),
                                      !.hasJoined = TRUE]

(***************************************************************************)
(* Properties of the Join button.                                          *)
(***************************************************************************)
\* The press whose acquisition of the local media failed or was denied.
MediaFailed(n) == prejoin.presses[n].media \in {"rejected", "blocked"}

\* The handleJoin call of press n has run to its end.
Finished(n) == prejoin.presses[n].step \in {"timer", "joined"}

\* Every join was sent by a press that held or acquired the local media.
JoinOnlyWithMedia ==
    \A i \in 1..Len(prejoin.joins) : ~MediaFailed(prejoin.joins[i])

\* C34: when the acquisition of the camera and microphone fails or is denied
\* after a press of Join, no join is sent for that press, the user stays on
\* the pre-join screen and an error toast is shown; a join is sent only after
\* the local media was acquired.
C34_JoinAfterMedia ==
    /\ JoinOnlyWithMedia
    /\ \A n \in 1..Len(prejoin.presses) :
          (MediaFailed(n) /\ Finished(n)) =>
              \E i \in 1..Len(prejoin.toasts) :
                  prejoin.toasts[i].press = n /\ prejoin.toasts[i].kind = "error"
    /\ (prejoin.hasJoined => prejoin.localStream)

(***************************************************************************)
(* Properties of the reconnect timer.                                      *)
(***************************************************************************)
\* The delays 500, 1000, 2000, 4000, 5000, 5000, ... of the attempts 1, 2, ...
Delay(k) ==
    CASE k = 1 -> 500
      [] k = 2 -> 1000
      [] k = 3 -> 2000
      [] k = 4 -> 4000
      [] OTHER -> 5000

\* What a step does to the reconnect timer and the attempt counter: a timer
\* that is set waits Delay(k) for the counter's new value k, which is one
\* more than before, or 1 when the step fell back to the next transport; an
\* open and a fallback that sets no timer leave the counter at 0; no other
\* step changes the counter; at most one timer is pending.
BackoffStep ==
    LET k == sig'.reconnectAttempts
        fellBack == sig'.transportIndex # sig.transportIndex
        opened == sig'.lastOpen.id # sig.lastOpen.id
        set == \/ sig.reconnectTimeout = 0 /\ sig'.reconnectTimeout # 0
               \/ k # sig.reconnectAttempts /\ k # 0
    IN /\ set => /\ sig'.reconnectTimeout = Delay(k)
                 /\ k = IF fellBack THEN 1 ELSE sig.reconnectAttempts + 1
       /\ opened => k = 0
       /\ (fellBack /\ ~set) => k = 0
       /\ ~(set \/ opened \/ fellBack) => k = sig.reconnectAttempts
       /\ sig'.timers <= 1
       /\ sig'.timers = 1 <=> sig'.reconnectTimeout # 0

\* C35: the k-th consecutive reconnect attempt on a transport waits
\* min(500 * 2^(k-1), 5000) ms; every successful open and every fallback
\* resets the attempt counter to 0; at most one reconnect timer is pending.
C35_Backoff == [][BackoffStep]_sig

\* The sixth attempt in a row waits 5000 ms, after a close that found the
\* timer of an earlier attempt pending and set none.
C35_Witness ==
    /\ sig.reconnectAttempts = 6
    /\ sig.reconnectTimeout = 5000
    /\ sig.timers = 1
    /\ \E id \in 1..Len(sig.transports) :
          sig.transports[id].kind = "ws" /\ id > 1 /\ ~sig.transports[id].closeEvent
             /\ sig.transports[id].ready = "closed"

(***************************************************************************)
(* Properties of the conversation getOrCreateChat returns.                 *)
(***************************************************************************)
\* C36: the conversation a getOrCreateChat(u1, u2) call returned has exactly
\* the participants u1 and u2, also when u1 = u2; it is never a conversation
\* of u1 with a third user.
C36_ExactParticipants ==
    lastCall.id # NoChat =>
        /\ lastCall.id \in DOMAIN chats
        /\ ParticipantSet(lastCall.id) = {lastCall.u1, lastCall.u2}

\* The same of the calls with two different users.
ExactParticipantsOfTwo ==
    (lastCall.id # NoChat /\ lastCall.u1 # lastCall.u2) =>
        /\ lastCall.id \in DOMAIN chats
        /\ ParticipantSet(lastCall.id) = {lastCall.u1, lastCall.u2}

(***************************************************************************)
(* Component 13: the operations of the messaging store (messaging.go) run  *)
(* by concurrent goroutines, one step per lock operation and per write to  *)
(* a connection.  A WriteMessage that has begun returns.                   *)
(***************************************************************************)
VARIABLES
    mstore,       \* chats, userChats, wsClients, the connections, the ids and calls made
    mlock,        \* s.mu (writer, readers) and the holders of the chat.mu locks
    thr           \* the operation, arguments, locals and position of each goroutine

concVars == <<mstore, mlock, thr>>

\* Goroutines that run store operations at the same time.
MaxGoroutines == 2

\* Store operations called in one run.
MaxCalls == 5

Goroutines == 1..MaxGoroutines

\* The pairs of users handleCreateChat is called for, and the users that
\* connect a websocket.
CreatePairs == {<<"u1", "u2">>, <<"u1", "u3">>}

ConnectingUsers == {"u1", "u2"}

StoreOps ==
    {"getOrCreateChat", "getUserChats", "addMessage", "getMessages", "markAsRead",
     "registerWSClient", "unregisterWSClient"}

Idle ==
    [op |-> "", pc |-> "idle", u1 |-> "", u2 |-> "", chatID |-> NoChat,
     chat |-> NoChat, msg |-> 0, i |-> 0, list |-> <<>>, conn |-> 0]

ConcInit ==
    /\ mstore = [chats |-> <<>>, userChats |-> [u \in MsgUsers |-> <<>>],
                 wsClients |-> [u \in MsgUsers |-> 0], conns |-> <<>>,
                 idSeq |-> 0, calls |-> 0]
    /\ mlock = [mu |-> [writer |-> 0, readers |-> {}], chat |-> {}]
    /\ thr = [t \in Goroutines |-> Idle]

\* sync.RWMutex and sync.Mutex
CanLock(l) == l.writer = 0 /\ l.readers = {}

CanRLock(l) == l.writer = 0

\* A read lock that is never given back.
RUnlockNever(l, t) == l

\* s.mu.RUnlock()
RUnlock(l, t) == [l EXCEPT !.mu.readers = @ \ {t}]

\* s.mu.RLock()
RLock(l, t) == [l EXCEPT !.mu.readers = @ \cup {t}]

\* chat.mu.Lock() and chat.mu.Unlock()
ChatFree(l, c) == \A t \in Goroutines : <<c, t>> \notin l.chat

ChatLock(l, c, t) == [l EXCEPT !.chat = @ \cup {<<c, t>>}]

ChatUnlock(l, c, t) == [l EXCEPT !.chat = @ \ {<<c, t>>}]

\* Goroutine t goes on with the locals fields, or returns.
Goto(t, fields) == thr' = [thr EXCEPT ![t] = fields]

Return(t) == thr' = [thr EXCEPT ![t] = Idle]

\* A handler calls a store operation on an idle goroutine.  The websocket
\* handler calls unregisterWSClient when its connection has ended.
Call(ops) ==
    /\ mstore.calls < MaxCalls
    /\ \E t \in Goroutines, op \in ops :
         /\ thr[t].pc = "idle"
         /\ \/ /\ op = "getOrCreateChat"
               /\ \E pair \in CreatePairs :
                    Goto(t, [Idle EXCEPT !.op = op, !.pc = "Lock",
                                         !.u1 = pair[1], !.u2 = pair[2]])
               /\ mstore' = [mstore EXCEPT !.calls = @ + 1]
            \/ /\ op = "getUserChats"
               /\ \E u \in ConnectingUsers :
                    Goto(t, [Idle EXCEPT !.op = op, !.pc = "RLock", !.u1 = u])
               /\ mstore' = [mstore EXCEPT !.calls = @ + 1]
            \/ /\ op \in {"addMessage", "markAsRead"}
               /\ \E c \in DOMAIN mstore.chats \cup {UnknownChat} :
                  \E u \in IF c = UnknownChat THEN {"u1"}
                           ELSE {mstore.chats[c].Participants[1]} :
                    Goto(t, [Idle EXCEPT !.op = op, !.pc = "RLock",
                                         !.chatID = c, !.u1 = u])
               /\ mstore' = [mstore EXCEPT !.calls = @ + 1]
            \/ /\ op = "getMessages"
               /\ \E c \in DOMAIN mstore.chats \cup {UnknownChat} :
                    Goto(t, [Idle EXCEPT !.op = op, !.pc = "RLock", !.chatID = c])
               /\ mstore' = [mstore EXCEPT !.calls = @ + 1]
            \/ /\ op = "registerWSClient"
               /\ \E u \in ConnectingUsers :
                    Goto(t, [Idle EXCEPT !.op = op, !.pc = "Lock", !.u1 = u])
               /\ mstore' = [mstore EXCEPT !.calls = @ + 1]
            \/ /\ op = "unregisterWSClient"
               /\ \E n \in 1..Len(mstore.conns) :
                    /\ mstore.conns[n].handler
                    /\ Goto(t, [Idle EXCEPT !.op = op, !.pc = "Lock",
                                            !.u1 = mstore.conns[n].user])
                    /\ mstore' = [mstore EXCEPT !.calls = @ + 1,
                                                !.conns[n].handler = FALSE,
                                                !.conns[n].open = FALSE]
    /\ UNCHANGED mlock

\* MessagingStore.getOrCreateChat
GetOrCreateChatStep(t) ==
    LET g == thr[t] IN
    /\ g.op = "getOrCreateChat"
    /\ \/ /\ g.pc = "Lock"
          /\ CanLock(mlock.mu)
          /\ mlock' = [mlock EXCEPT !.mu.writer = t]
          /\ Goto(t, [g EXCEPT !.pc = "locked"])
          /\ UNCHANGED mstore
       \/ /\ g.pc = "locked"
          /\ LET found == FindChat(mstore.chats, mstore.userChats, g.u1, g.u2)
                 id == generateID("CHAT-", mstore.idSeq)
                 chat == [ID |-> id, Participants |-> <<g.u1, g.u2>>,
                          Messages |-> <<>>, UnreadCount |-> [u \in MsgUsers |-> 0]]
                 withFirst == [mstore.userChats EXCEPT ![g.u1] = Append(@, id)]
             IN mstore' = IF found # NoChat THEN mstore
                          ELSE [mstore EXCEPT
                                  !.chats = [c \in DOMAIN mstore.chats \cup {id} |->
                                                IF c = id THEN chat ELSE mstore.chats[c]],
                                  !.userChats = [withFirst EXCEPT ![g.u2] = Append(@, id)],
                                  !.idSeq = @ + 1]
          /\ mlock' = [mlock EXCEPT !.mu.writer = 0]
          /\ Return(t)

\* MessagingStore.getUserChats
GetUserChatsStep(t) ==
    LET g == thr[t] IN
    /\ g.op = "getUserChats"
    /\ UNCHANGED mstore
    /\ \/ /\ g.pc = "RLock"
          /\ CanRLock(mlock.mu)
          /\ mlock' = RLock(mlock, t)
          /\ Goto(t, [g EXCEPT !.pc = "RUnlock", !.list = mstore.userChats[g.u1]])
       \/ /\ g.pc = "RUnlock"
          /\ mlock' = RUnlock(mlock, t)
          /\ IF g.list = <<>> THEN Return(t)
             ELSE Goto(t, [g EXCEPT !.pc = "each", !.i = 1])
       \/ /\ g.pc = "each"
          /\ CanRLock(mlock.mu)
          /\ mlock' = RLock(mlock, t)
          /\ Goto(t, [g EXCEPT !.pc = "eachRUnlock",
                               !.chat = IF g.list[g.i] \in DOMAIN mstore.chats
                                        THEN g.list[g.i] ELSE NoChat])
       \/ /\ g.pc = "eachRUnlock"
          /\ mlock' = RUnlock(mlock, t)
          /\ Goto(t, [g EXCEPT !.pc = "chatLock"])
       \/ /\ g.pc = "chatLock"
          /\ ChatFree(mlock, g.chat)
          /\ mlock' = ChatLock(mlock, g.chat, t)
          /\ Goto(t, [g EXCEPT !.pc = "chatUnlock"])
       \/ /\ g.pc = "chatUnlock"
          /\ mlock' = ChatUnlock(mlock, g.chat, t)
          /\ IF g.i + 1 > Len(g.list) THEN Return(t)
             ELSE Goto(t, [g EXCEPT !.pc = "each", !.i = @ + 1])

\* MessagingStore.addMessage up to the call of broadcastMessage.
AddMessageStep(t) ==
    LET g == thr[t] IN
    /\ g.op = "addMessage"
    /\ \/ /\ g.pc = "RLock"
          /\ CanRLock(mlock.mu)
          /\ mlock' = RLock(mlock, t)
          /\ Goto(t, [g EXCEPT !.pc = "RUnlock",
                               !.chat = IF g.chatID \in DOMAIN mstore.chats
                                        THEN g.chatID ELSE NoChat])
          /\ UNCHANGED mstore
       \/ /\ g.pc = "RUnlock"
          /\ mlock' = RUnlock(mlock, t)
          /\ IF g.chat = NoChat
             THEN Return(t) /\ UNCHANGED mstore
             ELSE /\ Goto(t, [g EXCEPT !.pc = "chatLock",
                                       !.msg = generateID("MSG-", mstore.idSeq)[2]])
                  /\ mstore' = [mstore EXCEPT !.idSeq = @ + 1]
       \/ /\ g.pc = "chatLock"
          /\ ChatFree(mlock, g.chat)
          /\ mlock' = ChatLock(mlock, g.chat, t)
          /\ mstore' = [mstore EXCEPT !.chats[g.chat] =
                [@ EXCEPT !.Messages = Append(@, g.msg),
                          !.UnreadCount = IncrementUnread(mstore.chats[g.chat], g.u1)]]
          /\ Goto(t, [g EXCEPT !.pc = "chatUnlock"])
       \/ /\ g.pc = "chatUnlock"
          /\ mlock' = ChatUnlock(mlock, g.chat, t)
          /\ Goto(t, [g EXCEPT !.op = "broadcastMessage", !.pc = "RLock"])
          /\ UNCHANGED mstore

\* The participant after the i-th one of the broadcast of goroutine t.
NextParticipant(t) ==
    IF thr[t].i + 1 > Len(mstore.chats[thr[t].chat].Participants) THEN Return(t)
    ELSE Goto(t, [thr[t] EXCEPT !.pc = "connRLock", !.i = @ + 1, !.conn = 0])

\* MessagingStore.broadcastMessage
BroadcastMessageStep(t) ==
    LET g == thr[t] IN
    /\ g.op = "broadcastMessage"
    /\ \/ /\ g.pc = "RLock"
          /\ CanRLock(mlock.mu)
          /\ mlock' = RLock(mlock, t)
          /\ Goto(t, [g EXCEPT !.pc = "RUnlock"])
          /\ UNCHANGED mstore
       \/ /\ g.pc = "RUnlock"
          /\ mlock' = RUnlock(mlock, t)
          /\ Goto(t, [g EXCEPT !.pc = "connRLock", !.i = 1])
          /\ UNCHANGED mstore
       \/ /\ g.pc = "connRLock"
          /\ CanRLock(mlock.mu)
          /\ mlock' = RLock(mlock, t)
          /\ Goto(t, [g EXCEPT !.pc = "connRUnlock",
                       !.conn = mstore.wsClients[mstore.chats[g.chat].Participants[g.i]]])
          /\ UNCHANGED mstore
       \/ /\ g.pc = "connRUnlock"
          /\ mlock' = RUnlock(mlock, t)
          /\ IF g.conn = 0 THEN NextParticipant(t)
             ELSE Goto(t, [g EXCEPT !.pc = "WriteMessage"])
          /\ UNCHANGED mstore
       \/ /\ g.pc = "WriteMessage"
          /\ mstore' = [mstore EXCEPT !.conns[g.conn].writers = @ \cup {t}]
          /\ Goto(t, [g EXCEPT !.pc = "written"])
          /\ UNCHANGED mlock
       \/ /\ g.pc = "written"
          /\ mstore' = [mstore EXCEPT
                !.conns[g.conn].writers = @ \ {t},
                !.conns[g.conn].inbox = IF mstore.conns[g.conn].open
                                        THEN Append(@, g.msg) ELSE @]
          /\ NextParticipant(t)
          /\ UNCHANGED mlock

\* MessagingStore.getMessages
GetMessagesStep(t) ==
    LET g == thr[t] IN
    /\ g.op = "getMessages"
    /\ UNCHANGED mstore
    /\ \/ /\ g.pc = "RLock"
          /\ CanRLock(mlock.mu)
          /\ mlock' = RLock(mlock, t)
          /\ Goto(t, [g EXCEPT !.pc = "RUnlock",
                               !.chat = IF g.chatID \in DOMAIN mstore.chats
                                        THEN g.chatID ELSE NoChat])
       \/ /\ g.pc = "RUnlock"
          /\ mlock' = RUnlock(mlock, t)
          /\ IF g.chat = NoChat THEN Return(t)
             ELSE Goto(t, [g EXCEPT !.pc = "chatLock"])
       \/ /\ g.pc = "chatLock"
          /\ ChatFree(mlock, g.chat)
          /\ mlock' = ChatLock(mlock, g.chat, t)
          /\ Goto(t, [g EXCEPT !.pc = "chatUnlock",
                               !.list = mstore.chats[g.chat].Messages])
       \/ /\ g.pc = "chatUnlock"
          /\ mlock' = ChatUnlock(mlock, g.chat, t)
          /\ Return(t)

\* MessagingStore.markAsRead
MarkAsReadStep(t) ==
    LET g == thr[t] IN
    /\ g.op = "markAsRead"
    /\ \/ /\ g.pc = "RLock"
          /\ CanRLock(mlock.mu)
          /\ mlock' = RLock(mlock, t)
          /\ Goto(t, [g EXCEPT !.pc = "RUnlock",
                               !.chat = IF g.chatID \in DOMAIN mstore.chats
                                        THEN g.chatID ELSE NoChat])
          /\ UNCHANGED mstore
       \/ /\ g.pc = "RUnlock"
          /\ mlock' = RUnlock(mlock, t)
          /\ IF g.chat = NoChat THEN Return(t)
             ELSE Goto(t, [g EXCEPT !.pc = "chatLock"])
          /\ UNCHANGED mstore
       \/ /\ g.pc = "chatLock"
          /\ ChatFree(mlock, g.chat)
          /\ mlock' = ChatLock(mlock, g.chat, t)
          /\ mstore' = [mstore EXCEPT !.chats[g.chat].UnreadCount[g.u1] = 0]
          /\ Goto(t, [g EXCEPT !.pc = "chatUnlock"])
       \/ /\ g.pc = "chatUnlock"
          /\ mlock' = ChatUnlock(mlock, g.chat, t)
          /\ Return(t)
          /\ UNCHANGED mstore

\* MessagingStore.registerWSClient with a new connection of the user.
RegisterWSClientStep(t) ==
    LET g == thr[t] IN
    /\ g.op = "registerWSClient"
    /\ \/ /\ g.pc = "Lock"
          /\ CanLock(mlock.mu)
          /\ mlock' = [mlock EXCEPT !.mu.writer = t]
          /\ Goto(t, [g EXCEPT !.pc = "locked"])
          /\ UNCHANGED mstore
       \/ /\ g.pc = "locked"
          /\ LET oldConn == mstore.wsClients[g.u1]
                 closed == IF oldConn # 0
                           THEN [mstore.conns EXCEPT ![oldConn].open = FALSE]
                           ELSE mstore.conns
             IN mstore' = [mstore EXCEPT
                   !.conns = Append(closed, [user |-> g.u1, open |-> TRUE,
                                             handler |-> TRUE, writers |-> {},
                                             inbox |-> <<>>]),
                   !.wsClients[g.u1] = Len(mstore.conns) + 1]
          /\ mlock' = [mlock EXCEPT !.mu.writer = 0]
          /\ Return(t)

\* MessagingStore.unregisterWSClient
UnregisterWSClientStep(t) ==
    LET g == thr[t] IN
    /\ g.op = "unregisterWSClient"
    /\ \/ /\ g.pc = "Lock"
          /\ CanLock(mlock.mu)
          /\ mlock' = [mlock EXCEPT !.mu.writer = t]
          /\ Goto(t, [g EXCEPT !.pc = "locked"])
          /\ UNCHANGED mstore
       \/ /\ g.pc = "locked"
          /\ mstore' = [mstore EXCEPT !.wsClients[g.u1] = 0]
          /\ mlock' = [mlock EXCEPT !.mu.writer = 0]
          /\ Return(t)

(***************************************************************************)
(* Properties of the concurrent store operations.                          *)
(***************************************************************************)
\* The position of message m in the sequence.
PositionIn(seq, m) == CHOOSE i \in 1..Len(seq) : seq[i] = m

\* C37: the new_message events of two messages of one conversation arrive
\* at every connection in the order in which the messages were appended to
\* the conversation's stored history.
C37_DeliveryOrder ==
    \A n \in 1..Len(mstore.conns) : \A c \in DOMAIN mstore.chats :
        LET received == mstore.conns[n].inbox
            history == mstore.chats[c].Messages
            stored == {history[k] : k \in 1..Len(history)}
        IN \A i, j \in 1..Len(received) :
              (i < j /\ received[i] \in stored /\ received[j] \in stored) =>
                  PositionIn(history, received[i]) < PositionIn(history, received[j])

\* C38: at most one goroutine at a time is inside WriteMessage on a given
\* connection.
C38_OneWriter ==
    \A n \in 1..Len(mstore.conns) : Cardinality(mstore.conns[n].writers) <= 1

(***************************************************************************)
(* Properties of the locks of the messaging store.                         *)
(***************************************************************************)
\* The locks goroutine t holds: s.mu for writing or reading, and chat.mu of
\* a conversation.
Held(t) ==
    (IF mlock.mu.writer = t THEN {"s.mu"} ELSE {})
    \cup (IF t \in mlock.mu.readers THEN {"s.mu (read)"} ELSE {})
    \cup {pair[1] : pair \in {p \in mlock.chat : p[2] = t}}

\* No goroutine holds two locks, and a goroutine outside an operation holds
\* none.
NoNestedLocks ==
    \A t \in Goroutines :
        /\ Cardinality(Held(t)) <= 1
        /\ thr[t].pc = "idle" => Held(t) = {}

\* C39: no store operation acquires a lock while it holds another one, and
\* under every interleaving of the operations each operation that was called
\* returns (so no interleaving ends in a deadlock).
C39_LockDiscipline ==
    /\ []NoNestedLocks
    /\ \A t \in Goroutines : (thr[t].pc # "idle") ~> (thr[t].pc = "idle")

\* A goroutine waits for s.mu, which another goroutine holds for writing, and
\* a message has been stored and written to a connection.
C39_Witness ==
    \E t1, t2 \in Goroutines :
        /\ mlock.mu.writer = t1
        /\ thr[t2].pc \in {"RLock", "connRLock", "each"}
        /\ \E n \in 1..Len(mstore.conns) : mstore.conns[n].inbox # <<>>

(***************************************************************************)
(* Component 14: the push handler of the service worker (sw.js).  The      *)
(* payload is the JSON object the server's sendOne builds.                 *)
(***************************************************************************)
VARIABLES
    worker        \* the push events handled and the notifications shown

workerVars == <<worker>>

\* Push events of one run.
MaxPushEvents == 2

SnapshotFields ==
    {"snapshotId", "snapshotKey", "snapshotKeyIv", "snapshotIv", "snapshotSalt",
     "snapshotEphemeralPubKey"}

\* The awaited steps of the handler up to the assignment of imageUrl, and
\* those of the icon after it, in the order of the code.
KeySteps ==
    <<"base64ToBytes", "importKey ephemeral", "deriveBits", "importKey HKDF",
      "deriveKey", "decrypt wrapped key", "importKey snapshot key", "fetch">>

ImageSteps == <<"arrayBuffer", "decrypt snapshot", "blobToDataUrl image">>

IconSteps == <<"createImageBitmap", "convertToBlob", "blobToDataUrl icon">>

StepsOf(seq) == {seq[i] : i \in 1..Len(seq)}

DefaultIcon == "/serenada.png"

NoUrl == "null"

\* A push event: the snapshot fields of the payload that are non-empty, what
\* getPrivateKey finds, the step that throws, res.ok, whether OffscreenCanvas
\* and createImageBitmap exist, and the bitmap.
AllPushEvents ==
    [fields : {SnapshotFields, {}, SnapshotFields \ {"snapshotKey"}},
     privateKey : {"key", "null"},
     throws : {"none", "getPrivateKey"} \cup StepsOf(KeySteps)
                 \cup StepsOf(ImageSteps) \cup StepsOf(IconSteps),
     ok : BOOLEAN, canvas : BOOLEAN, bitmap : {"image", "empty", "no context"}]

\* One event for each course the handler can take.
PushEvents ==
    {e \in AllPushEvents :
        /\ e.fields # SnapshotFields =>
              e.privateKey = "key" /\ e.throws = "none"
        /\ (e.fields # SnapshotFields \/ e.privateKey = "null"
               \/ e.throws \in {"getPrivateKey"} \cup StepsOf(KeySteps)) =>
              e.ok /\ e.canvas /\ e.bitmap = "image"
        /\ e.privateKey = "null" => e.throws \in {"none", "getPrivateKey"}
        /\ (~e.ok \/ e.throws \in StepsOf(ImageSteps)) =>
              e.canvas /\ e.bitmap = "image"
        /\ ~e.ok => e.throws \notin StepsOf(ImageSteps) \cup StepsOf(IconSteps)
        /\ ~e.canvas => e.bitmap = "image" /\ e.throws \notin StepsOf(IconSteps)
        /\ e.bitmap # "image" =>
              e.throws \notin {"convertToBlob", "blobToDataUrl icon"}}

\* A catch that leaves imageUrl as it is.
CatchKeepsImage(urls) == urls

\* catch (err) { imageUrl = null; }
Catch(urls) == [urls EXCEPT !.imageUrl = NoUrl]

\* The try block from the test of res.ok on: imageUrl, then iconUrl.
AfterFetch(e) ==
    LET none == [imageUrl |-> NoUrl, iconUrl |-> NoUrl]
        image == [none EXCEPT !.imageUrl = "data:image"]
    IN IF ~e.ok THEN none
       ELSE IF e.throws \in StepsOf(ImageSteps) THEN Catch(none)
       ELSE IF ~e.canvas THEN image
       ELSE IF e.throws = "createImageBitmap" THEN Catch(image)
       ELSE IF e.bitmap # "image" THEN image
       ELSE IF e.throws \in {"convertToBlob", "blobToDataUrl icon"} THEN Catch(image)
       ELSE [image EXCEPT !.iconUrl = "data:icon"]

\* The push listener up to showNotification: imageUrl and iconUrl.
SnapshotUrls(e) ==
    LET none == [imageUrl |-> NoUrl, iconUrl |-> NoUrl]
    IN IF ~(SnapshotFields \subseteq e.fields) THEN none
       ELSE IF e.throws = "getPrivateKey" THEN Catch(none)
       ELSE IF e.privateKey = "null" THEN none
       ELSE IF e.throws \in StepsOf(KeySteps) THEN Catch(none)
       ELSE AfterFetch(e)

\* The options of showNotification.
NotificationOptions(urls) ==
    [icon |-> IF urls.iconUrl # NoUrl THEN urls.iconUrl
              ELSE IF urls.imageUrl # NoUrl THEN urls.imageUrl
              ELSE DefaultIcon,
     badge |-> DefaultIcon,
     image |-> urls.imageUrl]

WorkerInit == worker = [events |-> <<>>, shown |-> <<>>]

\* A push event is handled to the end of its waitUntil promise.
PushEvent ==
    /\ Len(worker.events) < MaxPushEvents
    /\ \E e \in PushEvents :
         worker' = [events |-> Append(worker.events, e),
                    shown |-> Append(worker.shown,
                                     [event |-> Len(worker.events) + 1,
                                      options |-> NotificationOptions(SnapshotUrls(e))])]

(***************************************************************************)
(* Properties of the push handler.                                         *)
(***************************************************************************)
\* The notifications shown for event n.
ShownFor(n) == {i \in 1..Len(worker.shown) : worker.shown[i].event = n}

\* Every step of the event succeeded: the payload has the snapshot fields,
\* the device key is there, the blob fetch is ok and nothing threw.
EveryStepSucceeded(e) ==
    /\ e.fields = SnapshotFields
    /\ e.privateKey = "key"
    /\ e.ok
    /\ e.throws = "none"

\* The failures the fallback is stated for: the payload lacks snapshot
\* fields, the device key is missing, the fetch is not ok, or an import,
\* derivation, unwrap or decryption step fails.
StatedFailure(e) ==
    \/ e.fields # SnapshotFields
    \/ e.privateKey = "null"
    \/ ~e.ok
    \/ e.throws \in {"getPrivateKey", "importKey ephemeral", "deriveBits",
                     "importKey HKDF", "deriveKey", "decrypt wrapped key",
                     "importKey snapshot key", "decrypt snapshot"}

TextOnly(options) == options.icon = DefaultIcon /\ options.image = NoUrl

\* C40: every push event shows exactly one notification; it is text-only,
\* with the default icon and no image, when the payload lacks snapshot
\* fields, the device key is missing, the blob fetch is not ok or a step
\* fails; the decrypted image is attached only when every step succeeded.
C40_OneNotification ==
    \A n \in 1..Len(worker.events) :
        /\ Cardinality(ShownFor(n)) = 1
        /\ \A i \in ShownFor(n) :
              LET e == worker.events[n]
                  options == worker.shown[i].options
              IN /\ StatedFailure(e) => TextOnly(options)
                 /\ ~EveryStepSucceeded(e) => TextOnly(options)
                 /\ options.image # NoUrl => EveryStepSucceeded(e)

\* One event was shown with the decrypted image and its cropped icon, and one
\* whose bitmap could not be made after the image was decrypted is text-only.
C40_Witness ==
    \E i, j \in 1..Len(worker.shown) :
        /\ worker.shown[i].options.image = "data:image"
        /\ worker.shown[i].options.icon = "data:icon"
        /\ worker.events[worker.shown[j].event].throws = "createImageBitmap"
        /\ TextOnly(worker.shown[j].options)

(***************************************************************************)
(* Specifications: one per component, the other components standing still. *)
(***************************************************************************)
vars == <<authVars, msgVars, turnVars, pushVars, sigVars, rtcVars, sdpVars, snapVars, histVars, subVars, sendVars, inVars, staleVars, mediaVars, viewVars, joinVars, concVars, workerVars>>

Init == AuthInit /\ MsgInit /\ TurnInit /\ PushInit /\ SigInit /\ RtcInit /\ SdpInit /\ SnapInit /\ HistInit /\ SubInit /\ SendInit /\ InboxInit /\ MediaInit /\ ViewInit /\ PrejoinInit /\ ConcInit /\ WorkerInit

\* The variables of the authentication component alone (idSeq is shared with
\* the messaging store).
authOwn == <<users, usersByID, tokens, tokSeq, authReq>>

AuthNext ==
    \/ (\E r \in AuthReqIds : handleRegister(r)) /\ UNCHANGED <<msgVars, turnVars, pushVars, sigVars, rtcVars, sdpVars, snapVars, histVars, subVars, sendVars, inVars, staleVars, mediaVars, viewVars, joinVars, concVars, workerVars>>
    \/ (\E r \in AuthReqIds : handleRegisterCreateUser(r)) /\ UNCHANGED <<msgVars, turnVars, pushVars, sigVars, rtcVars, sdpVars, snapVars, histVars, subVars, sendVars, inVars, staleVars, mediaVars, viewVars, joinVars, concVars, workerVars>>
    \/ (\E r \in AuthReqIds : createToken(r)) /\ UNCHANGED <<msgVars, turnVars, pushVars, sigVars, rtcVars, sdpVars, snapVars, histVars, subVars, sendVars, inVars, staleVars, mediaVars, viewVars, joinVars, concVars, workerVars>>
    \/ (\E r \in AuthReqIds : handleLogin(r)) /\ UNCHANGED <<msgVars, turnVars, pushVars, sigVars, rtcVars, sdpVars, snapVars, histVars, subVars, sendVars, inVars, staleVars, mediaVars, viewVars, joinVars, concVars, workerVars>>
    \/ (\E r \in AuthReqIds : handleLoginVerifyUser(r)) /\ UNCHANGED <<msgVars, turnVars, pushVars, sigVars, rtcVars, sdpVars, snapVars, histVars, subVars, sendVars, inVars, staleVars, mediaVars, viewVars, joinVars, concVars, workerVars>>

MsgNext ==
    \/ handleCreateChat /\ UNCHANGED <<authOwn, turnVars, pushVars, sigVars, rtcVars, sdpVars, snapVars, histVars, subVars, sendVars, inVars, staleVars, mediaVars, viewVars, joinVars, concVars, workerVars>>
    \/ (handleSendMessage /\ sendLog'.unknown = 0) /\ UNCHANGED <<authOwn, turnVars, pushVars, sigVars, rtcVars, sdpVars, snapVars, histVars, subVars, inVars, staleVars, mediaVars, viewVars, joinVars, concVars, workerVars>>
    \/ markAsRead /\ UNCHANGED <<authOwn, turnVars, pushVars, sigVars, rtcVars, sdpVars, snapVars, histVars, subVars, sendVars, inVars, staleVars, mediaVars, viewVars, joinVars, concVars, workerVars>>

TurnNext ==
    \/ handleTurnCredentials /\ UNCHANGED <<authVars, msgVars, pushVars, sigVars, rtcVars, sdpVars, snapVars, histVars, subVars, sendVars, inVars, staleVars, mediaVars, viewVars, joinVars, concVars, workerVars>>
    \/ handleDiagnosticToken /\ UNCHANGED <<authVars, msgVars, pushVars, sigVars, rtcVars, sdpVars, snapVars, histVars, subVars, sendVars, inVars, staleVars, mediaVars, viewVars, joinVars, concVars, workerVars>>
    \/ issueCallToken /\ UNCHANGED <<authVars, msgVars, pushVars, sigVars, rtcVars, sdpVars, snapVars, histVars, subVars, sendVars, inVars, staleVars, mediaVars, viewVars, joinVars, concVars, workerVars>>
    \/ Tick /\ UNCHANGED <<authVars, msgVars, pushVars, sigVars, rtcVars, sdpVars, snapVars, histVars, subVars, sendVars, inVars, staleVars, mediaVars, viewVars, joinVars, concVars, workerVars>>

PushNext ==
    \/ (Subscribe /\ subLog'.plain) /\ UNCHANGED <<authVars, msgVars, turnVars, sigVars, rtcVars, sdpVars, snapVars, histVars, sendVars, inVars, staleVars, mediaVars, viewVars, joinVars, concVars, workerVars>>
    \/ (Unsubscribe /\ subLog'.idle = {}) /\ UNCHANGED <<authVars, msgVars, turnVars, sigVars, rtcVars, sdpVars, snapVars, histVars, sendVars, inVars, staleVars, mediaVars, viewVars, joinVars, concVars, workerVars>>
    \/ handlePushSnapshot /\ UNCHANGED <<authVars, msgVars, turnVars, sigVars, rtcVars, sdpVars, snapVars, histVars, subVars, sendVars, inVars, staleVars, mediaVars, viewVars, joinVars, concVars, workerVars>>
    \/ SendNotificationToRoom /\ UNCHANGED <<authVars, msgVars, turnVars, sigVars, rtcVars, sdpVars, snapVars, histVars, subVars, sendVars, inVars, staleVars, mediaVars, viewVars, joinVars, concVars, workerVars>>
    \/ sendOne({Response(201), Response(410)}) /\ UNCHANGED <<authVars, msgVars, turnVars, sigVars, rtcVars, sdpVars, snapVars, histVars, subVars, sendVars, inVars, staleVars, mediaVars, viewVars, joinVars, concVars, workerVars>>

SigNext ==
    \/ TransportOpens /\ UNCHANGED <<authVars, msgVars, turnVars, pushVars, rtcVars, sdpVars, snapVars, histVars, subVars, sendVars, inVars, staleVars, mediaVars, viewVars, joinVars, concVars, workerVars>>
    \/ ConnectTimeout /\ UNCHANGED <<authVars, msgVars, turnVars, pushVars, rtcVars, sdpVars, snapVars, histVars, subVars, sendVars, inVars, staleVars, mediaVars, viewVars, joinVars, concVars, workerVars>>
    \/ TransportError /\ UNCHANGED <<authVars, msgVars, turnVars, pushVars, rtcVars, sdpVars, snapVars, histVars, subVars, sendVars, inVars, staleVars, mediaVars, viewVars, joinVars, concVars, workerVars>>
    \/ WsCloseEvent /\ UNCHANGED <<authVars, msgVars, turnVars, pushVars, rtcVars, sdpVars, snapVars, histVars, subVars, sendVars, inVars, staleVars, mediaVars, viewVars, joinVars, concVars, workerVars>>
    \/ SseGone /\ UNCHANGED <<authVars, msgVars, turnVars, pushVars, rtcVars, sdpVars, snapVars, histVars, subVars, sendVars, inVars, staleVars, mediaVars, viewVars, joinVars, concVars, workerVars>>
    \/ ReconnectTimer /\ UNCHANGED <<authVars, msgVars, turnVars, pushVars, rtcVars, sdpVars, snapVars, histVars, subVars, sendVars, inVars, staleVars, mediaVars, viewVars, joinVars, concVars, workerVars>>
    \/ Unmount /\ UNCHANGED <<authVars, msgVars, turnVars, pushVars, rtcVars, sdpVars, snapVars, histVars, subVars, sendVars, inVars, staleVars, mediaVars, viewVars, joinVars, concVars, workerVars>>

\* The signaling connection with the application joining rooms, over the
\* first MaxJoinTransports transports.
JoinNext ==
    \/ (TransportOpens /\ sig'.transportId <= MaxJoinTransports) /\ UNCHANGED <<authVars, msgVars, turnVars, pushVars, rtcVars, sdpVars, snapVars, histVars, subVars, sendVars, inVars, staleVars, mediaVars, viewVars, joinVars, concVars, workerVars>>
    \/ (ConnectTimeout /\ sig'.transportId <= MaxJoinTransports) /\ UNCHANGED <<authVars, msgVars, turnVars, pushVars, rtcVars, sdpVars, snapVars, histVars, subVars, sendVars, inVars, staleVars, mediaVars, viewVars, joinVars, concVars, workerVars>>
    \/ (TransportError /\ sig'.transportId <= MaxJoinTransports) /\ UNCHANGED <<authVars, msgVars, turnVars, pushVars, rtcVars, sdpVars, snapVars, histVars, subVars, sendVars, inVars, staleVars, mediaVars, viewVars, joinVars, concVars, workerVars>>
    \/ (WsCloseEvent /\ sig'.transportId <= MaxJoinTransports) /\ UNCHANGED <<authVars, msgVars, turnVars, pushVars, rtcVars, sdpVars, snapVars, histVars, subVars, sendVars, inVars, staleVars, mediaVars, viewVars, joinVars, concVars, workerVars>>
    \/ (SseGone /\ sig'.transportId <= MaxJoinTransports) /\ UNCHANGED <<authVars, msgVars, turnVars, pushVars, rtcVars, sdpVars, snapVars, histVars, subVars, sendVars, inVars, staleVars, mediaVars, viewVars, joinVars, concVars, workerVars>>
    \/ (ReconnectTimer /\ sig'.transportId <= MaxJoinTransports) /\ UNCHANGED <<authVars, msgVars, turnVars, pushVars, rtcVars, sdpVars, snapVars, histVars, subVars, sendVars, inVars, staleVars, mediaVars, viewVars, joinVars, concVars, workerVars>>
    \/ JoinRoomCalled /\ UNCHANGED <<authVars, msgVars, turnVars, pushVars, rtcVars, sdpVars, snapVars, histVars, subVars, sendVars, inVars, staleVars, mediaVars, viewVars, joinVars, concVars, workerVars>>
    \/ JoinLookupEnds /\ UNCHANGED <<authVars, msgVars, turnVars, pushVars, rtcVars, sdpVars, snapVars, histVars, subVars, sendVars, inVars, staleVars, mediaVars, viewVars, joinVars, concVars, workerVars>>
    \/ Unmount /\ UNCHANGED <<authVars, msgVars, turnVars, pushVars, rtcVars, sdpVars, snapVars, histVars, subVars, sendVars, inVars, staleVars, mediaVars, viewVars, joinVars, concVars, workerVars>>

\* The same with the application leaving rooms and rooms ending, over the
\* first MaxLeaveTransports transports.
LeaveNext ==
    \/ (TransportOpens /\ sig'.transportId <= MaxLeaveTransports) /\ UNCHANGED <<authVars, msgVars, turnVars, pushVars, rtcVars, sdpVars, snapVars, histVars, subVars, sendVars, inVars, staleVars, mediaVars, viewVars, joinVars, concVars, workerVars>>
    \/ (ConnectTimeout /\ sig'.transportId <= MaxLeaveTransports) /\ UNCHANGED <<authVars, msgVars, turnVars, pushVars, rtcVars, sdpVars, snapVars, histVars, subVars, sendVars, inVars, staleVars, mediaVars, viewVars, joinVars, concVars, workerVars>>
    \/ (TransportError /\ sig'.transportId <= MaxLeaveTransports) /\ UNCHANGED <<authVars, msgVars, turnVars, pushVars, rtcVars, sdpVars, snapVars, histVars, subVars, sendVars, inVars, staleVars, mediaVars, viewVars, joinVars, concVars, workerVars>>
    \/ (WsCloseEvent /\ sig'.transportId <= MaxLeaveTransports) /\ UNCHANGED <<authVars, msgVars, turnVars, pushVars, rtcVars, sdpVars, snapVars, histVars, subVars, sendVars, inVars, staleVars, mediaVars, viewVars, joinVars, concVars, workerVars>>
    \/ (SseGone /\ sig'.transportId <= MaxLeaveTransports) /\ UNCHANGED <<authVars, msgVars, turnVars, pushVars, rtcVars, sdpVars, snapVars, histVars, subVars, sendVars, inVars, staleVars, mediaVars, viewVars, joinVars, concVars, workerVars>>
    \/ (ReconnectTimer /\ sig'.transportId <= MaxLeaveTransports) /\ UNCHANGED <<authVars, msgVars, turnVars, pushVars, rtcVars, sdpVars, snapVars, histVars, subVars, sendVars, inVars, staleVars, mediaVars, viewVars, joinVars, concVars, workerVars>>
    \/ JoinRoomCalled /\ UNCHANGED <<authVars, msgVars, turnVars, pushVars, rtcVars, sdpVars, snapVars, histVars, subVars, sendVars, inVars, staleVars, mediaVars, viewVars, joinVars, concVars, workerVars>>
    \/ JoinLookupEnds /\ UNCHANGED <<authVars, msgVars, turnVars, pushVars, rtcVars, sdpVars, snapVars, histVars, subVars, sendVars, inVars, staleVars, mediaVars, viewVars, joinVars, concVars, workerVars>>
    \/ Unmount /\ UNCHANGED <<authVars, msgVars, turnVars, pushVars, rtcVars, sdpVars, snapVars, histVars, subVars, sendVars, inVars, staleVars, mediaVars, viewVars, joinVars, concVars, workerVars>>
    \/ LeaveRoom /\ UNCHANGED <<authVars, msgVars, turnVars, pushVars, rtcVars, sdpVars, snapVars, histVars, subVars, sendVars, inVars, staleVars, mediaVars, viewVars, joinVars, concVars, workerVars>>
    \/ RoomEnded /\ UNCHANGED <<authVars, msgVars, turnVars, pushVars, rtcVars, sdpVars, snapVars, histVars, subVars, sendVars, inVars, staleVars, mediaVars, viewVars, joinVars, concVars, workerVars>>

RtcNext ==
    \/ SignalingConnects /\ UNCHANGED <<authVars, msgVars, turnVars, pushVars, sigVars, sdpVars, snapVars, histVars, subVars, sendVars, inVars, staleVars, mediaVars, viewVars, joinVars, concVars, workerVars>>
    \/ SignalingDisconnects /\ UNCHANGED <<authVars, msgVars, turnVars, pushVars, sigVars, sdpVars, snapVars, histVars, subVars, sendVars, inVars, staleVars, mediaVars, viewVars, joinVars, concVars, workerVars>>
    \/ RoomStateMessage /\ UNCHANGED <<authVars, msgVars, turnVars, pushVars, sigVars, sdpVars, snapVars, histVars, subVars, sendVars, inVars, staleVars, mediaVars, viewVars, joinVars, concVars, workerVars>>
    \/ RoomCleared /\ UNCHANGED <<authVars, msgVars, turnVars, pushVars, sigVars, sdpVars, snapVars, histVars, subVars, sendVars, inVars, staleVars, mediaVars, viewVars, joinVars, concVars, workerVars>>
    \/ RtcConfigLoaded /\ UNCHANGED <<authVars, msgVars, turnVars, pushVars, sigVars, sdpVars, snapVars, histVars, subVars, sendVars, inVars, staleVars, mediaVars, viewVars, joinVars, concVars, workerVars>>
    \/ OfferCreated /\ UNCHANGED <<authVars, msgVars, turnVars, pushVars, sigVars, sdpVars, snapVars, histVars, subVars, sendVars, inVars, staleVars, mediaVars, viewVars, joinVars, concVars, workerVars>>
    \/ OfferLocalDescriptionSet /\ UNCHANGED <<authVars, msgVars, turnVars, pushVars, sigVars, sdpVars, snapVars, histVars, subVars, sendVars, inVars, staleVars, mediaVars, viewVars, joinVars, concVars, workerVars>>
    \/ OfferTimeoutFires /\ UNCHANGED <<authVars, msgVars, turnVars, pushVars, sigVars, sdpVars, snapVars, histVars, subVars, sendVars, inVars, staleVars, mediaVars, viewVars, joinVars, concVars, workerVars>>
    \/ PeerOffer /\ UNCHANGED <<authVars, msgVars, turnVars, pushVars, sigVars, sdpVars, snapVars, histVars, subVars, sendVars, inVars, staleVars, mediaVars, viewVars, joinVars, concVars, workerVars>>
    \/ PeerAnswer /\ UNCHANGED <<authVars, msgVars, turnVars, pushVars, sigVars, sdpVars, snapVars, histVars, subVars, sendVars, inVars, staleVars, mediaVars, viewVars, joinVars, concVars, workerVars>>
    \/ PeerIce /\ UNCHANGED <<authVars, msgVars, turnVars, pushVars, sigVars, sdpVars, snapVars, histVars, subVars, sendVars, inVars, staleVars, mediaVars, viewVars, joinVars, concVars, workerVars>>
    \/ IceCandidate /\ UNCHANGED <<authVars, msgVars, turnVars, pushVars, sigVars, sdpVars, snapVars, histVars, subVars, sendVars, inVars, staleVars, mediaVars, viewVars, joinVars, concVars, workerVars>>
    \/ ConnectionStateChange /\ UNCHANGED <<authVars, msgVars, turnVars, pushVars, sigVars, sdpVars, snapVars, histVars, subVars, sendVars, inVars, staleVars, mediaVars, viewVars, joinVars, concVars, workerVars>>
    \/ NegotiationNeeded /\ UNCHANGED <<authVars, msgVars, turnVars, pushVars, sigVars, sdpVars, snapVars, histVars, subVars, sendVars, inVars, staleVars, mediaVars, viewVars, joinVars, concVars, workerVars>>
    \/ Online /\ UNCHANGED <<authVars, msgVars, turnVars, pushVars, sigVars, sdpVars, snapVars, histVars, subVars, sendVars, inVars, staleVars, mediaVars, viewVars, joinVars, concVars, workerVars>>
    \/ IceRestartTimerFires /\ UNCHANGED <<authVars, msgVars, turnVars, pushVars, sigVars, sdpVars, snapVars, histVars, subVars, sendVars, inVars, staleVars, mediaVars, viewVars, joinVars, concVars, workerVars>>
    \/ (TimePasses /\ rtc'.sinceRestart = RestartThrottleMs /\ rtc'.sinceRestartOffer = RestartThrottleMs) /\ UNCHANGED <<authVars, msgVars, turnVars, pushVars, sigVars, sdpVars, snapVars, histVars, subVars, sendVars, inVars, staleVars, mediaVars, viewVars, joinVars, concVars, workerVars>>

SdpNext ==
    \/ DescriptionCreated /\ UNCHANGED <<authVars, msgVars, turnVars, pushVars, sigVars, rtcVars, snapVars, histVars, subVars, sendVars, inVars, staleVars, mediaVars, viewVars, joinVars, concVars, workerVars>>
    \/ ApplyForceVP8 /\ UNCHANGED <<authVars, msgVars, turnVars, pushVars, sigVars, rtcVars, snapVars, histVars, subVars, sendVars, inVars, staleVars, mediaVars, viewVars, joinVars, concVars, workerVars>>

SnapNext ==
    \/ handlePushSnapshotPost(SnapshotUploadRequests, {"written"}, {0}) /\ UNCHANGED <<authVars, msgVars, turnVars, pushVars, sigVars, rtcVars, sdpVars, histVars, subVars, sendVars, inVars, staleVars, mediaVars, viewVars, joinVars, concVars, workerVars>>
    \/ handlePushSnapshotGet /\ UNCHANGED <<authVars, msgVars, turnVars, pushVars, sigVars, rtcVars, sdpVars, histVars, subVars, sendVars, inVars, staleVars, mediaVars, viewVars, joinVars, concVars, workerVars>>
    \/ SnapTimePasses /\ UNCHANGED <<authVars, msgVars, turnVars, pushVars, sigVars, rtcVars, sdpVars, histVars, subVars, sendVars, inVars, staleVars, mediaVars, viewVars, joinVars, concVars, workerVars>>

\* The websocket registry with one conversation and one message.
WsNext ==
    \/ (DOMAIN chats = {} /\ handleCreateChat) /\ UNCHANGED <<authOwn, turnVars, pushVars, sigVars, rtcVars, sdpVars, snapVars, histVars, subVars, sendVars, inVars, staleVars, mediaVars, viewVars, joinVars, concVars, workerVars>>
    \/ (NumStoredMsgs = 0 /\ handleSendMessage /\ sendLog'.unknown = 0) /\ UNCHANGED <<authOwn, turnVars, pushVars, sigVars, rtcVars, sdpVars, snapVars, histVars, subVars, inVars, staleVars, mediaVars, viewVars, joinVars, concVars, workerVars>>
    \/ registerWSClient /\ UNCHANGED <<authOwn, turnVars, pushVars, sigVars, rtcVars, sdpVars, snapVars, histVars, subVars, sendVars, inVars, staleVars, mediaVars, viewVars, joinVars, concVars, workerVars>>
    \/ ClientCloses /\ UNCHANGED <<authOwn, turnVars, pushVars, sigVars, rtcVars, sdpVars, snapVars, histVars, subVars, sendVars, inVars, staleVars, mediaVars, viewVars, joinVars, concVars, workerVars>>
    \/ unregisterWSClient /\ UNCHANGED <<authOwn, turnVars, pushVars, sigVars, rtcVars, sdpVars, snapVars, histVars, subVars, sendVars, inVars, staleVars, mediaVars, viewVars, joinVars, concVars, workerVars>>

HistNext ==
    \/ SaveCall /\ UNCHANGED <<authVars, msgVars, turnVars, pushVars, sigVars, rtcVars, sdpVars, snapVars, subVars, sendVars, inVars, staleVars, mediaVars, viewVars, joinVars, concVars, workerVars>>

SubNext ==
    \/ Subscribe /\ UNCHANGED <<authVars, msgVars, turnVars, sigVars, rtcVars, sdpVars, snapVars, histVars, sendVars, inVars, staleVars, mediaVars, viewVars, joinVars, concVars, workerVars>>
    \/ Unsubscribe /\ UNCHANGED <<authVars, msgVars, turnVars, sigVars, rtcVars, sdpVars, snapVars, histVars, sendVars, inVars, staleVars, mediaVars, viewVars, joinVars, concVars, workerVars>>

\* The sends in one conversation and to none.
SendNext ==
    \/ (DOMAIN chats = {} /\ handleCreateChat) /\ UNCHANGED <<authOwn, sendVars, turnVars, pushVars, sigVars, rtcVars, sdpVars, snapVars, histVars, subVars, inVars, staleVars, mediaVars, viewVars, joinVars, concVars, workerVars>>
    \/ handleSendMessage /\ UNCHANGED <<authOwn, turnVars, pushVars, sigVars, rtcVars, sdpVars, snapVars, histVars, subVars, inVars, staleVars, mediaVars, viewVars, joinVars, concVars, workerVars>>
    \/ markAsRead /\ UNCHANGED <<authOwn, sendVars, turnVars, pushVars, sigVars, rtcVars, sdpVars, snapVars, histVars, subVars, inVars, staleVars, mediaVars, viewVars, joinVars, concVars, workerVars>>
    \/ registerWSClient /\ UNCHANGED <<authOwn, sendVars, turnVars, pushVars, sigVars, rtcVars, sdpVars, snapVars, histVars, subVars, inVars, staleVars, mediaVars, viewVars, joinVars, concVars, workerVars>>

\* The signaling connection with the application joining rooms and sending,
\* messages arriving, and the transports called back after their replacement.
StaleNext ==
    \/ (TransportOpens /\ sig'.transportId <= MaxStaleTransports /\ Noting("onOpen")) /\ UNCHANGED <<authVars, msgVars, turnVars, pushVars, rtcVars, sdpVars, snapVars, histVars, subVars, sendVars, inVars, mediaVars, viewVars, joinVars, concVars, workerVars>>
    \/ (ConnectTimeout /\ sig'.transportId <= MaxStaleTransports /\ Noting("onClose timeout")) /\ UNCHANGED <<authVars, msgVars, turnVars, pushVars, rtcVars, sdpVars, snapVars, histVars, subVars, sendVars, inVars, mediaVars, viewVars, joinVars, concVars, workerVars>>
    \/ (TransportError /\ sig'.transportId <= MaxStaleTransports /\ Noting("onClose error")) /\ UNCHANGED <<authVars, msgVars, turnVars, pushVars, rtcVars, sdpVars, snapVars, histVars, subVars, sendVars, inVars, mediaVars, viewVars, joinVars, concVars, workerVars>>
    \/ (WsCloseEvent /\ sig'.transportId <= MaxStaleTransports /\ Noting("onClose close")) /\ UNCHANGED <<authVars, msgVars, turnVars, pushVars, rtcVars, sdpVars, snapVars, histVars, subVars, sendVars, inVars, mediaVars, viewVars, joinVars, concVars, workerVars>>
    \/ (SseGone /\ sig'.transportId <= MaxStaleTransports /\ Noting("onClose gone")) /\ UNCHANGED <<authVars, msgVars, turnVars, pushVars, rtcVars, sdpVars, snapVars, histVars, subVars, sendVars, inVars, mediaVars, viewVars, joinVars, concVars, workerVars>>
    \/ (SseGoneLate /\ sig'.transportId <= MaxStaleTransports /\ Noting("onClose gone")) /\ UNCHANGED <<authVars, msgVars, turnVars, pushVars, rtcVars, sdpVars, snapVars, histVars, subVars, sendVars, inVars, mediaVars, viewVars, joinVars, concVars, workerVars>>
    \/ (ReconnectTimer /\ sig'.transportId <= MaxStaleTransports) /\ UNCHANGED <<authVars, msgVars, turnVars, pushVars, rtcVars, sdpVars, snapVars, histVars, subVars, sendVars, inVars, staleVars, mediaVars, viewVars, joinVars, concVars, workerVars>>
    \/ SsePost /\ UNCHANGED <<authVars, msgVars, turnVars, pushVars, rtcVars, sdpVars, snapVars, histVars, subVars, sendVars, inVars, staleVars, mediaVars, viewVars, joinVars, concVars, workerVars>>
    \/ JoinRoomCalled /\ UNCHANGED <<authVars, msgVars, turnVars, pushVars, rtcVars, sdpVars, snapVars, histVars, subVars, sendVars, inVars, staleVars, mediaVars, viewVars, joinVars, concVars, workerVars>>
    \/ TransportMessage /\ UNCHANGED <<authVars, msgVars, turnVars, pushVars, rtcVars, sdpVars, snapVars, histVars, subVars, sendVars, mediaVars, viewVars, joinVars, concVars, workerVars>>
    \/ Unmount /\ UNCHANGED <<authVars, msgVars, turnVars, pushVars, rtcVars, sdpVars, snapVars, histVars, subVars, sendVars, inVars, staleVars, mediaVars, viewVars, joinVars, concVars, workerVars>>

MediaNext ==
    \/ Render /\ UNCHANGED <<authVars, msgVars, turnVars, pushVars, sigVars, rtcVars, sdpVars, snapVars, histVars, subVars, sendVars, inVars, staleVars, viewVars, joinVars, concVars, workerVars>>
    \/ startLocalMedia /\ UNCHANGED <<authVars, msgVars, turnVars, pushVars, sigVars, rtcVars, sdpVars, snapVars, histVars, subVars, sendVars, inVars, staleVars, viewVars, joinVars, concVars, workerVars>>
    \/ StartResolves /\ UNCHANGED <<authVars, msgVars, turnVars, pushVars, sigVars, rtcVars, sdpVars, snapVars, histVars, subVars, sendVars, inVars, staleVars, viewVars, joinVars, concVars, workerVars>>
    \/ CaptureRejects /\ UNCHANGED <<authVars, msgVars, turnVars, pushVars, sigVars, rtcVars, sdpVars, snapVars, histVars, subVars, sendVars, inVars, staleVars, viewVars, joinVars, concVars, workerVars>>
    \/ stopLocalMedia /\ UNCHANGED <<authVars, msgVars, turnVars, pushVars, sigVars, rtcVars, sdpVars, snapVars, histVars, subVars, sendVars, inVars, staleVars, viewVars, joinVars, concVars, workerVars>>
    \/ flipCamera /\ UNCHANGED <<authVars, msgVars, turnVars, pushVars, sigVars, rtcVars, sdpVars, snapVars, histVars, subVars, sendVars, inVars, staleVars, viewVars, joinVars, concVars, workerVars>>
    \/ FlipResolves /\ UNCHANGED <<authVars, msgVars, turnVars, pushVars, sigVars, rtcVars, sdpVars, snapVars, histVars, subVars, sendVars, inVars, staleVars, viewVars, joinVars, concVars, workerVars>>
    \/ MediaUnmount /\ UNCHANGED <<authVars, msgVars, turnVars, pushVars, sigVars, rtcVars, sdpVars, snapVars, histVars, subVars, sendVars, inVars, staleVars, viewVars, joinVars, concVars, workerVars>>

ViewNext ==
    \/ StoreAndBroadcast /\ UNCHANGED <<authVars, msgVars, turnVars, pushVars, sigVars, rtcVars, sdpVars, snapVars, histVars, subVars, sendVars, inVars, staleVars, mediaVars, joinVars, concVars, workerVars>>
    \/ NewMessageEvent /\ UNCHANGED <<authVars, msgVars, turnVars, pushVars, sigVars, rtcVars, sdpVars, snapVars, histVars, subVars, sendVars, inVars, staleVars, mediaVars, joinVars, concVars, workerVars>>
    \/ LoadMessagesServed /\ UNCHANGED <<authVars, msgVars, turnVars, pushVars, sigVars, rtcVars, sdpVars, snapVars, histVars, subVars, sendVars, inVars, staleVars, mediaVars, joinVars, concVars, workerVars>>
    \/ LoadMessagesResponse /\ UNCHANGED <<authVars, msgVars, turnVars, pushVars, sigVars, rtcVars, sdpVars, snapVars, histVars, subVars, sendVars, inVars, staleVars, mediaVars, joinVars, concVars, workerVars>>

\* The snapshot store with writes that fail, for uploads of a valid body and
\* of one with a 13-byte IV.
FilesNext ==
    \/ handlePushSnapshotPost({GoodUpload, [GoodUpload EXCEPT !.SnapshotIV = B64(13)]}, WriteOutcomes, {0, 1}) /\ UNCHANGED <<authVars, msgVars, turnVars, pushVars, sigVars, rtcVars, sdpVars, histVars, subVars, sendVars, inVars, staleVars, mediaVars, viewVars, joinVars, concVars, workerVars>>
    \/ handlePushSnapshotGet /\ UNCHANGED <<authVars, msgVars, turnVars, pushVars, sigVars, rtcVars, sdpVars, histVars, subVars, sendVars, inVars, staleVars, mediaVars, viewVars, joinVars, concVars, workerVars>>
    \/ SnapTimePasses /\ UNCHANGED <<authVars, msgVars, turnVars, pushVars, sigVars, rtcVars, sdpVars, histVars, subVars, sendVars, inVars, staleVars, mediaVars, viewVars, joinVars, concVars, workerVars>>

\* The fan-out of a join to the subscribers of a room, with every answer of
\* the push provider.
DeliverNext ==
    \/ (Subscribe /\ subLog'.plain) /\ UNCHANGED <<authVars, msgVars, turnVars, sigVars, rtcVars, sdpVars, snapVars, histVars, sendVars, inVars, staleVars, mediaVars, viewVars, joinVars, concVars, workerVars>>
    \/ SendNotificationToRoom /\ UNCHANGED <<authVars, msgVars, turnVars, sigVars, rtcVars, sdpVars, snapVars, histVars, subVars, sendVars, inVars, staleVars, mediaVars, viewVars, joinVars, concVars, workerVars>>
    \/ sendOne(PushResponses) /\ UNCHANGED <<authVars, msgVars, turnVars, sigVars, rtcVars, sdpVars, snapVars, histVars, subVars, sendVars, inVars, staleVars, mediaVars, viewVars, joinVars, concVars, workerVars>>

PrejoinNext ==
    \/ handleJoin /\ UNCHANGED <<authVars, msgVars, turnVars, pushVars, sigVars, rtcVars, sdpVars, snapVars, histVars, subVars, sendVars, inVars, staleVars, mediaVars, viewVars, concVars, workerVars>>
    \/ GetUserMediaResolves /\ UNCHANGED <<authVars, msgVars, turnVars, pushVars, sigVars, rtcVars, sdpVars, snapVars, histVars, subVars, sendVars, inVars, staleVars, mediaVars, viewVars, concVars, workerVars>>
    \/ GetUserMediaRejects /\ UNCHANGED <<authVars, msgVars, turnVars, pushVars, sigVars, rtcVars, sdpVars, snapVars, histVars, subVars, sendVars, inVars, staleVars, mediaVars, viewVars, concVars, workerVars>>
    \/ JoinScheduled /\ UNCHANGED <<authVars, msgVars, turnVars, pushVars, sigVars, rtcVars, sdpVars, snapVars, histVars, subVars, sendVars, inVars, staleVars, mediaVars, viewVars, concVars, workerVars>>
    \/ JoinTimer /\ UNCHANGED <<authVars, msgVars, turnVars, pushVars, sigVars, rtcVars, sdpVars, snapVars, histVars, subVars, sendVars, inVars, staleVars, mediaVars, viewVars, concVars, workerVars>>

ConcNext ==
    \/ Call({"getOrCreateChat","registerWSClient","addMessage"}) /\ UNCHANGED <<authVars, msgVars, turnVars, pushVars, sigVars, rtcVars, sdpVars, snapVars, histVars, subVars, sendVars, inVars, staleVars, mediaVars, viewVars, joinVars, workerVars>>
    \/ (\E t \in Goroutines : GetOrCreateChatStep(t)) /\ UNCHANGED <<authVars, msgVars, turnVars, pushVars, sigVars, rtcVars, sdpVars, snapVars, histVars, subVars, sendVars, inVars, staleVars, mediaVars, viewVars, joinVars, workerVars>>
    \/ (\E t \in Goroutines : RegisterWSClientStep(t)) /\ UNCHANGED <<authVars, msgVars, turnVars, pushVars, sigVars, rtcVars, sdpVars, snapVars, histVars, subVars, sendVars, inVars, staleVars, mediaVars, viewVars, joinVars, workerVars>>
    \/ (\E t \in Goroutines : AddMessageStep(t)) /\ UNCHANGED <<authVars, msgVars, turnVars, pushVars, sigVars, rtcVars, sdpVars, snapVars, histVars, subVars, sendVars, inVars, staleVars, mediaVars, viewVars, joinVars, workerVars>>
    \/ (\E t \in Goroutines : BroadcastMessageStep(t)) /\ UNCHANGED <<authVars, msgVars, turnVars, pushVars, sigVars, rtcVars, sdpVars, snapVars, histVars, subVars, sendVars, inVars, staleVars, mediaVars, viewVars, joinVars, workerVars>>

\* A step of a goroutine that is inside a store operation.
StoreStep ==
    \E t \in Goroutines :
        \/ GetOrCreateChatStep(t) \/ GetUserChatsStep(t) \/ AddMessageStep(t)
        \/ BroadcastMessageStep(t) \/ GetMessagesStep(t) \/ MarkAsReadStep(t)
        \/ RegisterWSClientStep(t) \/ UnregisterWSClientStep(t)

\* Every store operation, called in any order on the goroutines.
LocksNext ==
    \/ Call(StoreOps) /\ UNCHANGED <<authVars, msgVars, turnVars, pushVars, sigVars, rtcVars, sdpVars, snapVars, histVars, subVars, sendVars, inVars, staleVars, mediaVars, viewVars, joinVars, workerVars>>
    \/ (\E t \in Goroutines : GetOrCreateChatStep(t)) /\ UNCHANGED <<authVars, msgVars, turnVars, pushVars, sigVars, rtcVars, sdpVars, snapVars, histVars, subVars, sendVars, inVars, staleVars, mediaVars, viewVars, joinVars, workerVars>>
    \/ (\E t \in Goroutines : GetUserChatsStep(t)) /\ UNCHANGED <<authVars, msgVars, turnVars, pushVars, sigVars, rtcVars, sdpVars, snapVars, histVars, subVars, sendVars, inVars, staleVars, mediaVars, viewVars, joinVars, workerVars>>
    \/ (\E t \in Goroutines : AddMessageStep(t)) /\ UNCHANGED <<authVars, msgVars, turnVars, pushVars, sigVars, rtcVars, sdpVars, snapVars, histVars, subVars, sendVars, inVars, staleVars, mediaVars, viewVars, joinVars, workerVars>>
    \/ (\E t \in Goroutines : BroadcastMessageStep(t)) /\ UNCHANGED <<authVars, msgVars, turnVars, pushVars, sigVars, rtcVars, sdpVars, snapVars, histVars, subVars, sendVars, inVars, staleVars, mediaVars, viewVars, joinVars, workerVars>>
    \/ (\E t \in Goroutines : GetMessagesStep(t)) /\ UNCHANGED <<authVars, msgVars, turnVars, pushVars, sigVars, rtcVars, sdpVars, snapVars, histVars, subVars, sendVars, inVars, staleVars, mediaVars, viewVars, joinVars, workerVars>>
    \/ (\E t \in Goroutines : MarkAsReadStep(t)) /\ UNCHANGED <<authVars, msgVars, turnVars, pushVars, sigVars, rtcVars, sdpVars, snapVars, histVars, subVars, sendVars, inVars, staleVars, mediaVars, viewVars, joinVars, workerVars>>
    \/ (\E t \in Goroutines : RegisterWSClientStep(t)) /\ UNCHANGED <<authVars, msgVars, turnVars, pushVars, sigVars, rtcVars, sdpVars, snapVars, histVars, subVars, sendVars, inVars, staleVars, mediaVars, viewVars, joinVars, workerVars>>
    \/ (\E t \in Goroutines : UnregisterWSClientStep(t)) /\ UNCHANGED <<authVars, msgVars, turnVars, pushVars, sigVars, rtcVars, sdpVars, snapVars, histVars, subVars, sendVars, inVars, staleVars, mediaVars, viewVars, joinVars, workerVars>>

WorkerNext ==
    \/ PushEvent /\ UNCHANGED <<authVars, msgVars, turnVars, pushVars, sigVars, rtcVars, sdpVars, snapVars, histVars, subVars, sendVars, inVars, staleVars, mediaVars, viewVars, joinVars, concVars>>

\* One fixed configuration of the environment of a component, for the
\* specifications of the components that do not read it.
TurnAtRest ==
    turnEnv = [TURN_TOKEN_SECRET |-> "", TURN_SECRET |-> "", STUN_HOST |-> ""]

SigAtRest == sig.eventSource /\ ~sig.pushSupport

InitAtRest == Init /\ TurnAtRest /\ SigAtRest

InitTurn == Init /\ SigAtRest

InitSig == Init /\ TurnAtRest /\ ~sig.pushSupport

InitJoin == Init /\ TurnAtRest

SpecAuth == InitAtRest /\ [][AuthNext]_vars

SpecMsg == InitAtRest /\ [][MsgNext]_vars

SpecTurn == InitTurn /\ [][TurnNext]_vars

SpecPush == InitAtRest /\ [][PushNext]_vars

SpecSig == InitSig /\ [][SigNext]_vars

SpecJoin == InitJoin /\ [][JoinNext]_vars

SpecLeave == InitJoin /\ [][LeaveNext]_vars

SpecRtc == InitAtRest /\ [][RtcNext]_vars

SpecSdp == InitAtRest /\ [][SdpNext]_vars

SpecSnap == InitAtRest /\ [][SnapNext]_vars

SpecWs == InitAtRest /\ [][WsNext]_vars

SpecHist == InitAtRest /\ [][HistNext]_vars

SpecSub == InitAtRest /\ [][SubNext]_vars

SpecSend == InitAtRest /\ [][SendNext]_vars

SpecStale == InitSig /\ [][StaleNext]_vars

SpecMedia == InitAtRest /\ [][MediaNext]_vars

SpecView == InitAtRest /\ [][ViewNext]_vars

SpecFiles == InitAtRest /\ [][FilesNext]_vars

SpecDeliver == InitAtRest /\ [][DeliverNext]_vars

SpecPrejoin == InitAtRest /\ [][PrejoinNext]_vars

SpecConc == InitAtRest /\ [][ConcNext]_vars

\* The scheduler lets every goroutine that can take a step take one.
SpecLocks == InitAtRest /\ [][LocksNext]_vars /\ WF_concVars(StoreStep)

SpecWorker == InitAtRest /\ [][WorkerNext]_vars

====
